---- MODULE Spec2Model ----
(***************************************************************************)
(* Model of package functional (keep94/gofunctional2).                     *)
(*                                                                         *)
(* Spec    : a generator made by NewGeneratorCloseMayFail (NewGenerator is *)
(*           the case where the emitting function returns nil), driven by  *)
(*           a caller either directly or through Slice(gen, start, end).   *)
(*           The caller thread and the worker goroutine meet on the two    *)
(*           unbuffered channels ptrCh and errCh; a send and its receive   *)
(*           are one joint step.                                           *)
(* SpecMC  : MultiConsume over an upstream Stream and up to MaxConsumers   *)
(*           Consumers, each run in its own goroutine against its private  *)
(*           splitStream.                                                  *)
(***************************************************************************)
EXTENDS Integers, Sequences, FiniteSets, TLC

\* ------------------------------------------------------------------ bounds
\* longest list of Return calls an emitting function makes by itself
MaxLen == 3
\* number of Next/Close calls the caller makes on the stream
MaxCalls == 4
\* number of Consumers given to MultiConsume
MaxConsumers == 2
\* number of Next calls one Consumer makes on its private stream
MaxNexts == 2
\* number of values and errors the upstream emits before Done
MaxUp == 2
\* number of Filter or Map wrappers put around one source
MaxWraps == 2
\* number of Filterers given to Any or All
MaxArgs == 3

\* ------------------------------------------------------------- vocabulary
\* error values (functional.go:12-14, generators.go:103, functional_test.go)
Nil == "nil"
Done == "Done"
Skipped == "Skipped"
scanError == "scanError"
closeError == "closeError"
notReturnedError == "Emitting function did not return on Close."

\* pointers: NilPtr is Go's nil, Slots are the *T values callers pass to Next
NilPtr == 0
Slots == {1, 2}

\* The outcomes a source of values can give one after the other: nil with a
\* value stored, or scanError. The code never looks at a value, so the k-th
\* outcome, when nil, comes with the value k: values lost, doubled or out
\* of order show.
Outcomes == {Nil, scanError}
ItemAt(q, k) == [err |-> q[k], val |-> IF q[k] = Nil THEN k ELSE 0]

RECURSIVE SeqsUpTo(_, _)
SeqsUpTo(S, n) ==
  IF n = 0 THEN {<<>>}
  ELSE LET shorter == SeqsUpTo(S, n - 1)
       IN  shorter \cup {Append(q, x) : q \in {r \in shorter : Len(r) = n - 1}, x \in S}

Last(q) == q[Len(q)]
Front(q) == SubSeq(q, 1, Len(q) - 1)

VARIABLES
  \* --- the generator object (regularGenerator / emitterStream)
  ptr,          \* emitterStream.ptr
  chClosed,     \* ptrCh == nil, i.e. isClosed()
  closeResult,  \* regularGenerator.closeResult
  \* --- the worker goroutine started by NewGeneratorCloseMayFail
  ppc,          \* where the goroutine is
  script,       \* the Return calls the emitting function makes by itself
  obeys,        \* the emitting function returns when EmitPtr() is nil
  ferr,         \* what the emitting function returns
  pidx,         \* next item of script
  pout,         \* argument of the Return call in progress
  perr,         \* local err of the goroutine (generators.go:48)
  finished,     \* how many times the emitting function has run to its end
  returned,     \* every argument passed to Return so far, with the value stored
  \* --- the caller thread
  cpc,          \* where the caller is
  cop,          \* the call in progress on the stream: "Next", "Close" or "none"
  carg,         \* pointer given to that call
  cptr,         \* pointer given to regularGenerator.Next
  cres,         \* value being returned to the frame on top of frames
  frames,       \* callers of the code at cpc, outermost first
  wrapped,      \* the caller holds Slice(gen, start, end), not gen itself
  sl,           \* the sliceStream fields
  mem,          \* the caller's storage behind each pointer
  chanOps,      \* channel operations of the caller during the call in progress
  calls,        \* completed calls on the stream
  genCalls,     \* completed calls of regularGenerator.Next
  \* --- MultiConsume: the calling thread
  nConsumers,   \* len(consumers)
  streams,      \* streams[i]: ptr and closed (ptrCh == nil) of the i-th splitStream
  mcErr,        \* local err of MultiConsume
  shared,       \* the value behind MultiConsume's ptr
  epc,          \* where the calling thread is
  ei,           \* index i of the loop it is in
  result,       \* local result of asyncReturn
  mcResult,     \* what MultiConsume returned
  \* --- MultiConsume: the upstream Stream s
  upScript,     \* what s emits before Done
  upIdx,        \* next item of upScript
  upCloseErr,   \* what s.Close() returns
  upLog,        \* every call made on s, in order, with its outcome
  \* --- MultiConsume: the goroutine of each Consumer
  gpc,          \* gpc[i]: where the goroutine is
  gptr,         \* gptr[i]: pointer given to the Next call in progress
  gres,         \* gres[i]: what that Next call returns
  gmem,         \* gmem[i]: the Consumer's storage behind each pointer
  got,          \* got[i]: outcome and value of each completed Next call
  \* --- a Stream built from the functions of functional.go, and its caller
  stream,       \* the Stream the caller holds, with every Stream under it
  slog,         \* the calls the caller has made on it, each with its outcome
  built,        \* the wrappers put around the source, innermost first
  \* --- a Filterer built by Any or All, and its caller
  fargs,        \* the Filterers given to Any or All
  filterer,     \* the Filterer that Any or All has returned
  flog          \* the calls of Filter made on it: value, outcome, Filterers run

mcVars == <<nConsumers, streams, mcErr, shared, epc, ei, result, mcResult,
            upScript, upIdx, upCloseErr, upLog, gpc, gptr, gres, gmem, got>>

generatorVars == <<ptr, chClosed, closeResult, ppc, script, obeys, ferr, pidx, pout,
                   perr, finished, returned, cpc, cop, carg, cptr, cres, frames,
                   wrapped, sl, mem, chanOps, calls, genCalls>>

filtererVars == <<fargs, filterer, flog>>

streamVars == <<stream, slog, built, fargs, filterer, flog>>

vars == <<generatorVars, mcVars, streamVars>>

genVars == <<ptr, chClosed, closeResult>>
workerVars == <<ppc, pidx, pout, perr, finished, returned>>
progVars == <<script, obeys, ferr, wrapped>>

\* finish that turns every outcome into Done
finishAlwaysDone(e) == Done

\* a finish that returns the outcome of Close as it is
finishAsIs(e) == e

\* finish (functional.go:821-826)
finish(e) == IF e = Nil THEN Done ELSE e

\* an isClosed that takes every generator for open
isClosedNever == FALSE

\* isClosed (emitter_stream.go:51-53)
isClosed == chClosed

\* an EmitPtr that is always nil
EmitPtrAlwaysNil == NilPtr

\* EmitPtr (emitter_stream.go:24-26)
EmitPtr == ptr

\* ---------------------------------------------------------------- Init
\* NewGeneratorCloseMayFail (generators.go:45-56) has made the channels and
\* started the goroutine, which is about to run startEmitter; Slice
\* (functional.go:169-171) has made its sliceStream with index 0.
SliceStarts == {0, 1}
SliceEnds == {-1, 0, 1, 2}

Consumers == 1..MaxConsumers

\* the caller holds no Stream of functional.go
NoFilterer == fargs = <<>> /\ filterer = [made |-> "none"] /\ flog = <<>>

NoStream ==
  /\ stream = [kind |-> "nil"] /\ slog = <<>> /\ built = <<>>
  /\ NoFilterer

\* MultiConsume is not running
NoMultiConsume ==
  /\ nConsumers = 0
  /\ streams = [i \in Consumers |-> [ptr |-> NilPtr, closed |-> FALSE]]
  /\ mcErr = Nil
  /\ shared = 0
  /\ epc = "none"
  /\ ei = 1
  /\ result = FALSE
  /\ mcResult = Nil
  /\ upScript = <<>>
  /\ upIdx = 1
  /\ upCloseErr = Nil
  /\ upLog = <<>>
  /\ gpc = [i \in Consumers |-> "none"]
  /\ gptr = [i \in Consumers |-> NilPtr]
  /\ gres = [i \in Consumers |-> Nil]
  /\ gmem = [i \in Consumers |-> [p \in Slots |-> 0]]
  /\ got = [i \in Consumers |-> <<>>]

\* no generator exists
NoGenerator ==
  /\ ptr = NilPtr /\ chClosed = FALSE /\ closeResult = Nil
  /\ ppc = "none" /\ script = <<>> /\ obeys = TRUE /\ ferr = Nil
  /\ pidx = 1 /\ pout = Nil /\ perr = Nil /\ finished = 0 /\ returned = <<>>
  /\ cpc = "none" /\ cop = "none" /\ carg = NilPtr /\ cptr = NilPtr /\ cres = Nil
  /\ frames = <<>> /\ wrapped = FALSE
  /\ sl = [start |-> 0, end |-> -1, index |-> 0, done |-> FALSE]
  /\ mem = [p \in Slots |-> 0] /\ chanOps = 0 /\ calls = <<>> /\ genCalls = <<>>

Init ==
  /\ NoStream
  /\ NoMultiConsume
  /\ ptr = NilPtr
  /\ chClosed = FALSE
  /\ closeResult = Nil
  /\ ppc = "startEmitter"
  /\ script \in SeqsUpTo(Outcomes, MaxLen)
  /\ obeys \in BOOLEAN
  /\ ferr \in {Nil, closeError}
  /\ pidx = 1
  /\ pout = Nil
  /\ perr = Nil
  /\ finished = 0
  /\ returned = <<>>
  /\ cpc = "idle"
  /\ cop = "none"
  /\ carg = NilPtr
  /\ cptr = NilPtr
  /\ cres = Nil
  /\ frames = <<>>
  /\ wrapped \in BOOLEAN
  /\ sl \in [start : SliceStarts, end : SliceEnds, index : {0}, done : {FALSE}]
  /\ (~wrapped => sl = [start |-> 0, end |-> -1, index |-> 0, done |-> FALSE])
  /\ mem = [p \in Slots |-> 0]
  /\ chanOps = 0
  /\ calls = <<>>
  /\ genCalls = <<>>

\* ------------------------------------------------------------ the caller
\* The caller calls Next(p) on the stream it holds (toIntArray, verifyDone).
CallNext(p) ==
  /\ cpc = "idle"
  /\ Len(calls) < MaxCalls
  /\ cop' = "Next"
  /\ carg' = p
  /\ frames' = <<>>
  /\ chanOps' = 0
  /\ IF wrapped
       THEN cpc' = "sliceNext" /\ UNCHANGED cptr
       ELSE cpc' = "genNext" /\ cptr' = p
  /\ UNCHANGED <<mcVars, streamVars>>
  /\ UNCHANGED <<genVars, workerVars, progVars, cres, sl, mem, calls, genCalls>>

\* The caller calls Close on the stream it holds. sliceStream embeds its
\* Stream, so Close on a Slice is Close of the generator.
CallClose ==
  /\ cpc = "idle"
  /\ Len(calls) < MaxCalls
  /\ cop' = "Close"
  /\ carg' = NilPtr
  /\ frames' = <<>>
  /\ chanOps' = 0
  /\ cpc' = "genClose"
  /\ UNCHANGED <<mcVars, streamVars>>
  /\ UNCHANGED <<genVars, workerVars, progVars, cptr, cres, sl, mem, calls, genCalls>>

\* sliceStream.Next up to its next call of the inner stream
\* (functional.go:406-411 and 424-425).
SliceNext ==
  /\ cpc = "sliceNext"
  /\ IF sl.done
       THEN /\ cres' = Done
            /\ cpc' = "return"
            /\ UNCHANGED <<sl, frames, cptr>>
       ELSE IF sl.end < 0 \/ sl.index < sl.end
         THEN /\ frames' = Append(frames, "sliceNext")
              /\ cptr' = carg
              /\ cpc' = "genNext"
              /\ UNCHANGED <<sl, cres>>
         ELSE /\ sl' = [sl EXCEPT !.done = TRUE]
              /\ frames' = Append(frames, "sliceFinish")
              /\ cpc' = "genClose"
              /\ UNCHANGED <<cptr, cres>>
  /\ UNCHANGED <<mcVars, streamVars, chanOps>>
  /\ UNCHANGED <<genVars, workerVars, progVars, cop, carg, mem, calls, genCalls>>

\* regularGenerator.Next up to the send on ptrCh (generators.go:84-88).
RegularGeneratorNext ==
  /\ cpc = "genNext"
  /\ frames' = Append(frames, "genNext")
  /\ IF isClosed
       THEN cres' = Done /\ cpc' = "return"
       ELSE cpc' = "sendPtr" /\ UNCHANGED cres
  /\ UNCHANGED <<mcVars, streamVars, chanOps>>
  /\ UNCHANGED <<genVars, workerVars, progVars, cop, carg, cptr, sl, mem, calls, genCalls>>

\* Close of a closed generator that returns nil
ClosedCloseResultNil == Nil

\* what Close of a closed generator returns (generators.go:98-100)
ClosedCloseResult == closeResult

\* Close that takes every generator for closed
CloseCallsNextNever == FALSE

\* Close calls s.Next(nil) unless the generator is closed
\* (generators.go:98-101)
CloseCallsNext == ~isClosed

\* regularGenerator.Close up to its call of s.Next(nil) (generators.go:97-101).
RegularGeneratorClose ==
  /\ cpc = "genClose"
  /\ IF ~CloseCallsNext
       THEN /\ cres' = ClosedCloseResult
            /\ cpc' = "return"
            /\ UNCHANGED <<frames, cptr>>
       ELSE /\ frames' = Append(frames, "genClose")
            /\ cptr' = NilPtr
            /\ cpc' = "genNext"
            /\ UNCHANGED cres
  /\ UNCHANGED <<mcVars, streamVars, chanOps>>
  /\ UNCHANGED <<genVars, workerVars, progVars, cop, carg, sl, mem, calls, genCalls>>

\* A call returns cres to its caller, which runs on to its own return or to
\* its next call.
\*   no frame       : the call on the stream is complete
\*   "genNext"      : regularGenerator.Next returns to whoever called it
\*   "genClose"     : generators.go:102-108
\*   "sliceNext"    : functional.go:412-423
\*   "sliceFinish"  : functional.go:425
CloseOutcomeNilWhenClosed(r) ==
  IF ~isClosed THEN notReturnedError ELSE Nil

\* Close that returns what its Next(nil) returned
CloseOutcomeAsReturned(r) ==
  IF r = Done THEN Nil ELSE r

CloseOutcome(r) ==
  IF ~isClosed THEN notReturnedError
  ELSE IF r = Done THEN Nil ELSE r

ReturnToCaller ==
  /\ cpc = "return"
  /\ IF frames = <<>>
       THEN /\ calls' = Append(calls,
                 [op |-> cop, res |-> cres,
                  val |-> IF cop = "Next" /\ cres = Nil THEN mem[carg] ELSE 0,
                  ops |-> chanOps, fin |-> finished, closed |-> isClosed])
            /\ cpc' = "idle"
            /\ cop' = "none"
            /\ UNCHANGED <<frames, cres, sl, genCalls>>
       ELSE
         /\ frames' = Front(frames)
         /\ UNCHANGED <<calls, cop>>
         /\ CASE Last(frames) = "genNext" ->
                   /\ genCalls' = Append(genCalls,
                        [ptr |-> cptr, res |-> cres,
                         val |-> IF cptr # NilPtr /\ cres = Nil THEN mem[cptr] ELSE 0,
                         closed |-> isClosed])
                   /\ UNCHANGED <<cpc, cres, sl>>
              [] Last(frames) = "genClose" ->
                   /\ cres' = CloseOutcome(cres)
                   /\ UNCHANGED <<cpc, sl, genCalls>>
              [] Last(frames) = "sliceFinish" ->
                   /\ cres' = finish(cres)
                   /\ UNCHANGED <<cpc, sl, genCalls>>
              [] Last(frames) = "sliceNext" ->
                   /\ UNCHANGED genCalls
                   /\ IF cres = Done
                        THEN sl' = [sl EXCEPT !.done = TRUE] /\ UNCHANGED <<cpc, cres>>
                        ELSE IF cres # Nil
                          THEN UNCHANGED <<cpc, cres, sl>>
                          ELSE /\ sl' = [sl EXCEPT !.index = sl.index + 1]
                               /\ UNCHANGED cres
                               /\ cpc' = IF sl.index + 1 > sl.start
                                           THEN "return" ELSE "sliceNext"
  /\ UNCHANGED <<mcVars, streamVars, chanOps>>
  /\ UNCHANGED <<genVars, workerVars, progVars, carg, cptr, mem>>

\* ------------------------------------------------- the worker goroutine
\* Return that takes Done like any other outcome
ReturnPanicsNever(err) == FALSE

\* regularGenerator.Return panics when given Done (generators.go:77-80)
ReturnPanics(err) == err = Done

\* The emitting function f between two blocking points: it looks at
\* EmitPtr() and either returns, or stores a value and calls Return
\* (generators_test.go:18-28, 44-55, 110-112). The deferred endEmitter(err)
\* runs when it returns (generators.go:48-53).
EmittingFunction ==
  /\ ppc = "run"
  /\ IF (EmitPtr = NilPtr /\ obeys) \/ pidx > Len(script)
       THEN /\ perr' = ferr
            /\ finished' = finished + 1
            /\ ppc' = "endEmitterDone"
            /\ UNCHANGED <<pidx, pout, returned, mem>>
       ELSE IF ReturnPanics(script[pidx])
       THEN \* the panic ends f without err = f(result) being assigned, and
            \* the deferred function runs endEmitter(err) before the crash
            /\ pout' = script[pidx]
            /\ pidx' = pidx + 1
            /\ ppc' = "endEmitterDone"
            /\ UNCHANGED <<perr, finished, returned, mem>>
       ELSE /\ mem' = IF script[pidx] = Nil /\ EmitPtr # NilPtr
                        THEN [mem EXCEPT ![EmitPtr] = ItemAt(script, pidx).val]
                        ELSE mem
            /\ returned' = Append(returned, ItemAt(script, pidx))
            /\ pout' = script[pidx]
            /\ pidx' = pidx + 1
            /\ ppc' = "returnSend"
            /\ UNCHANGED <<perr, finished>>
  /\ UNCHANGED <<mcVars, streamVars, chanOps>>
  /\ UNCHANGED <<genVars, progVars, cpc, cop, carg, cptr, cres, frames, sl, calls, genCalls>>

\* Return that does not wait for the next pointer
AfterReturnSendNoWait == "run"

\* Where the worker goes after the send of Return (emitter_stream.go:19-22).
AfterReturnSend == "returnRecv"

\* s.ptrCh <- ptr of emitterStream.Next (emitter_stream.go:15) meets
\* s.ptr = <-s.ptrCh of startEmitter (emitter_stream.go:28-30).
StartEmitter ==
  /\ cpc = "sendPtr"
  /\ ppc = "startEmitter"
  /\ ptr' = cptr
  /\ ppc' = "run"
  /\ cpc' = "recvErr"
  /\ chanOps' = chanOps + 1
  /\ UNCHANGED <<mcVars, streamVars>>
  /\ UNCHANGED <<chClosed, closeResult, progVars, pidx, pout, perr, finished, returned,
                 cop, carg, cptr, cres, frames, sl, mem, calls, genCalls>>

\* s.errCh <- err of Return (emitter_stream.go:20) meets return <-s.errCh of
\* emitterStream.Next (emitter_stream.go:16); regularGenerator.Next returns
\* the result unless it is Done (generators.go:88-94).
ReturnSend ==
  /\ ppc = "returnSend"
  /\ cpc = "recvErr"
  /\ cres' = pout
  /\ cpc' = IF pout = Done THEN "recvCloseResult" ELSE "return"
  /\ ppc' = AfterReturnSend
  /\ chanOps' = chanOps + 1
  /\ UNCHANGED <<mcVars, streamVars>>
  /\ UNCHANGED <<genVars, progVars, pidx, pout, perr, finished, returned,
                 cop, carg, cptr, frames, sl, mem, calls, genCalls>>

\* s.ptr = <-s.ptrCh of Return (emitter_stream.go:21) meets s.ptrCh <- ptr of
\* emitterStream.Next (emitter_stream.go:15).
ReturnRecv ==
  /\ ppc = "returnRecv"
  /\ cpc = "sendPtr"
  /\ ptr' = cptr
  /\ ppc' = "run"
  /\ cpc' = "recvErr"
  /\ chanOps' = chanOps + 1
  /\ UNCHANGED <<mcVars, streamVars>>
  /\ UNCHANGED <<chClosed, closeResult, progVars, pidx, pout, perr, finished, returned,
                 cop, carg, cptr, cres, frames, sl, mem, calls, genCalls>>

\* s.errCh <- Done of endEmitter (emitter_stream.go:32-34) meets
\* <-s.errCh of emitterStream.Next; regularGenerator.Next sees Done and goes
\* on to receive the close result (generators.go:88-90).
EndEmitterDone ==
  /\ ppc = "endEmitterDone"
  /\ cpc = "recvErr"
  /\ ppc' = "endEmitterErr"
  /\ cpc' = "recvCloseResult"
  /\ chanOps' = chanOps + 1
  /\ UNCHANGED <<mcVars, streamVars>>
  /\ UNCHANGED <<genVars, progVars, pidx, pout, perr, finished, returned,
                 cop, carg, cptr, cres, frames, sl, mem, calls, genCalls>>

\* The second send of endEmitter(err), which carries the emitting function's
\* result, meets s.closeResult = <-s.errCh; regularGenerator.Next then closes
\* the channels and returns finish(s.closeResult) (generators.go:90-92,
\* emitter_stream.go:44-49).
EndEmitterErr ==
  /\ ppc = "endEmitterErr"
  /\ cpc = "recvCloseResult"
  /\ closeResult' = perr
  /\ chClosed' = TRUE
  /\ cres' = finish(perr)
  /\ cpc' = "return"
  /\ ppc' = IF ReturnPanics(pout) THEN "panicking" ELSE "exit"
  /\ chanOps' = chanOps + 1
  /\ UNCHANGED <<mcVars, streamVars>>
  /\ UNCHANGED <<ptr, progVars, pidx, pout, perr, finished, returned,
                 cop, carg, cptr, frames, sl, mem, calls, genCalls>>

Next ==
  \/ \E p \in Slots : CallNext(p)
  \/ CallClose
  \/ SliceNext
  \/ RegularGeneratorNext
  \/ RegularGeneratorClose
  \/ ReturnToCaller
  \/ EmittingFunction
  \/ StartEmitter
  \/ ReturnSend
  \/ ReturnRecv
  \/ EndEmitterDone
  \/ EndEmitterErr

Spec == Init /\ [][Next]_vars

\* ------------------------------------------- Return(Done): the panic
\* An emitting function that may end its list of Return calls with
\* Return(Done), which the documentation of Emitter forbids
\* (generators.go:19-23).
InitPanic ==
  /\ NoStream
  /\ NoMultiConsume
  /\ ptr = NilPtr /\ chClosed = FALSE /\ closeResult = Nil
  /\ ppc = "startEmitter"
  /\ script \in SeqsUpTo(Outcomes, MaxLen) \cup
                {Append(q, Done) : q \in SeqsUpTo(Outcomes, MaxLen - 1)}
  /\ obeys \in BOOLEAN
  /\ ferr \in {Nil, closeError}
  /\ pidx = 1 /\ pout = Nil /\ perr = Nil /\ finished = 0 /\ returned = <<>>
  /\ cpc = "idle" /\ cop = "none" /\ carg = NilPtr /\ cptr = NilPtr /\ cres = Nil
  /\ frames = <<>>
  /\ wrapped = FALSE
  /\ sl = [start |-> 0, end |-> -1, index |-> 0, done |-> FALSE]
  /\ mem = [p \in Slots |-> 0] /\ chanOps = 0 /\ calls = <<>> /\ genCalls = <<>>

\* The panic of regularGenerator.Return (generators.go:79) is not recovered:
\* once the deferred function of the goroutine (generators.go:49-51) is
\* over, the Go runtime ends the process, wherever the caller thread is.
Crash ==
  /\ ppc = "panicking"
  /\ ppc' = "crashed"
  /\ cpc' = "crashed"
  /\ UNCHANGED <<mcVars, streamVars>>
  /\ UNCHANGED <<genVars, progVars, pidx, pout, perr, finished, returned,
                 cop, carg, cptr, cres, frames, sl, mem, chanOps, calls, genCalls>>

NextPanic ==
  \/ \E p \in Slots : CallNext(p)
  \/ CallClose
  \/ RegularGeneratorNext
  \/ RegularGeneratorClose
  \/ ReturnToCaller
  \/ EmittingFunction
  \/ StartEmitter
  \/ ReturnSend
  \/ ReturnRecv
  \/ EndEmitterDone
  \/ EndEmitterErr
  \/ Crash

SpecPanic == InitPanic /\ [][NextPanic]_vars

\* --------------------------------------------------------------- EmitAll
\* A generator whose emitting function is
\*   func(e Emitter) error { return EmitAll(s, e) }
\* over a Stream s that emits upScript and then Done, and whose Close
\* returns upCloseErr.
InitEmitAll ==
  /\ NoStream
  /\ ptr = NilPtr /\ chClosed = FALSE /\ closeResult = Nil
  /\ ppc = "startEmitter"
  /\ script = <<>> /\ obeys = TRUE /\ ferr = Nil
  /\ pidx = 1 /\ pout = Nil /\ perr = Nil /\ finished = 0 /\ returned = <<>>
  /\ cpc = "idle" /\ cop = "none" /\ carg = NilPtr /\ cptr = NilPtr /\ cres = Nil
  /\ frames = <<>>
  /\ wrapped = FALSE
  /\ sl = [start |-> 0, end |-> -1, index |-> 0, done |-> FALSE]
  /\ mem = [p \in Slots |-> 0] /\ chanOps = 0 /\ calls = <<>> /\ genCalls = <<>>
  /\ nConsumers = 0
  /\ streams = [i \in Consumers |-> [ptr |-> NilPtr, closed |-> FALSE]]
  /\ mcErr = Nil /\ shared = 0 /\ epc = "none" /\ ei = 1
  /\ result = FALSE /\ mcResult = Nil
  /\ upScript \in SeqsUpTo(Outcomes, MaxUp)
  /\ upIdx = 1
  /\ upCloseErr \in {Nil, closeError}
  /\ upLog = <<>>
  /\ gpc = [i \in Consumers |-> "none"]
  /\ gptr = [i \in Consumers |-> NilPtr]
  /\ gres = [i \in Consumers |-> Nil]
  /\ gmem = [i \in Consumers |-> [p \in Slots |-> 0]]
  /\ got = [i \in Consumers |-> <<>>]

\* EmitAll that returns the outcome of s.Close() as it is
EmitAllClosedResultRaw(e) == e

\* what EmitAll returns when EmitPtr() is nil (generators.go:69)
EmitAllClosedResult(e) == finish(e)

\* EmitAll that returns Done when s is exhausted
EmitAllExhaustedResultDone == Done

\* what EmitAll returns when s.Next returns Done (generators.go:63-65)
EmitAllExhaustedResult == Nil

\* EmitAll (generators.go:61-70) between two blocking points: the loop test
\* on e.EmitPtr(), then either s.Close() and the return, or s.Next(ptr)
\* followed by the return or by e.Return(err) up to its send.
EmitAll ==
  /\ ppc = "run"
  /\ IF EmitPtr = NilPtr
       THEN /\ upLog' = Append(upLog, [op |-> "Close", res |-> upCloseErr, val |-> 0])
            /\ perr' = EmitAllClosedResult(upCloseErr)
            /\ finished' = finished + 1
            /\ ppc' = "endEmitterDone"
            /\ UNCHANGED <<upIdx, pout, returned, mem>>
       ELSE
         LET err == IF upIdx <= Len(upScript) THEN upScript[upIdx] ELSE Done
             val == IF err = Nil THEN ItemAt(upScript, upIdx).val ELSE 0
         IN  /\ upLog' = Append(upLog, [op |-> "Next", res |-> err, val |-> val])
             /\ upIdx' = IF upIdx <= Len(upScript) THEN upIdx + 1 ELSE upIdx
             /\ mem' = IF err = Nil THEN [mem EXCEPT ![EmitPtr] = val] ELSE mem
             /\ IF err = Done
                  THEN /\ perr' = EmitAllExhaustedResult
                       /\ finished' = finished + 1
                       /\ ppc' = "endEmitterDone"
                       /\ UNCHANGED <<pout, returned>>
                  ELSE /\ returned' = Append(returned, [err |-> err, val |-> val])
                       /\ pout' = err
                       /\ ppc' = "returnSend"
                       /\ UNCHANGED <<perr, finished>>
  /\ UNCHANGED <<genVars, progVars, pidx, cpc, cop, carg, cptr, cres, frames, sl,
                 chanOps, calls, genCalls>>
  /\ UNCHANGED <<nConsumers, streams, mcErr, shared, epc, ei, result, mcResult,
                 upScript, upCloseErr, gpc, gptr, gres, gmem, got, streamVars>>

NextEmitAll ==
  \/ \E p \in Slots : CallNext(p)
  \/ CallClose
  \/ RegularGeneratorNext
  \/ RegularGeneratorClose
  \/ ReturnToCaller
  \/ EmitAll
  \/ StartEmitter
  \/ ReturnSend
  \/ ReturnRecv
  \/ EndEmitterDone
  \/ EndEmitterErr

SpecEmitAll == InitEmitAll /\ [][NextEmitAll]_vars

(***************************************************************************)
(* Claims about the generator, checked under Spec                          *)
(***************************************************************************)
\* the calls of regularGenerator.Next that returned with the generator open:
\* the ones a Return of the emitting function answered
OpenGenCalls == SelectSeq(genCalls, LAMBDA c : ~c.closed)

\* C1: the k-th call to Next on the still-open generator returns the outcome
\* the emitting function passed to its k-th call of Return, with the value
\* it stored; nothing is lost, doubled or reordered, and the emitting
\* function is never more than one Return ahead of the caller.
C1_NextGetsKthReturn ==
  /\ Len(OpenGenCalls) <= Len(returned)
  /\ Len(returned) <= Len(OpenGenCalls) + 1
  /\ \A k \in 1..Len(OpenGenCalls) :
       /\ OpenGenCalls[k].res = returned[k].err
       /\ (OpenGenCalls[k].ptr # NilPtr => OpenGenCalls[k].val = returned[k].val)

\* three Next calls answered in turn by a value, an error and a value
C1_Witness ==
  /\ Len(genCalls) = 3
  /\ \A k \in 1..3 : ~genCalls[k].closed /\ genCalls[k].ptr # NilPtr
  /\ genCalls[1].res = Nil /\ genCalls[1].val = 1
  /\ genCalls[2].res = scanError
  /\ genCalls[3].res = Nil /\ genCalls[3].val = 3

\* C6 as claimed: Close hands a nil pointer to the worker and does not
\* return until the emitting function has returned, and the emitting
\* function runs to its end exactly once.
C6_CloseWaitsForEmittingFunction ==
  /\ finished <= 1
  /\ (cpc = "sendPtr" /\ Len(frames) >= 2 /\ frames[Len(frames) - 1] = "genClose"
        => cptr = NilPtr)
  /\ \A j \in 1..Len(calls) : calls[j].op = "Close" => calls[j].fin = 1

\* C6, amended: Close hands a nil pointer to the worker and does not return
\* until the emitting function has returned or has called Return again; in
\* the second case Close returns the did-not-return error and the generator
\* stays open. An emitting function that returns when EmitPtr() is nil has
\* run to its end exactly once when Close returns, whatever calls were made
\* before, and also when a Slice around the generator has reported its end.
C6_CloseWaitsOrReportsNoReturn ==
  /\ finished <= 1
  /\ (cpc = "sendPtr" /\ Len(frames) >= 2 /\ frames[Len(frames) - 1] = "genClose"
        => cptr = NilPtr)
  /\ \A j \in 1..Len(calls) :
       calls[j].op = "Close" =>
         \/ calls[j].fin = 1 /\ calls[j].closed
         \/ ~obeys /\ calls[j].fin = 0 /\ ~calls[j].closed
              /\ calls[j].res = notReturnedError
  /\ (obeys /\ wrapped /\ sl.done /\ cpc = "idle" => finished = 1 /\ isClosed)

\* Slice(gen, 0, 2) over an emitting function with three values to give:
\* the third Next on the slice has closed the generator, and the emitting
\* function has seen the nil pointer and run to its end
C6_Witness ==
  /\ obeys /\ wrapped /\ sl.start = 0 /\ sl.end = 2
  /\ Len(script) = 3 /\ pidx = 3
  /\ Len(calls) = 3
  /\ calls[3].op = "Next" /\ calls[3].res \in {Done, closeError}
  /\ calls[3].fin = 1 /\ ptr = NilPtr /\ ppc = "exit"

\* C7: once a call to Next on the stream has returned Done, every later call
\* to Next returns Done and every later call to Close returns nil. Stated
\* for the emitting functions that return when EmitPtr() is nil, the ones
\* the documentation of NewGenerator allows.
C7_DoneIsSticky ==
  \A k \in 1..Len(calls) : \A j \in (k + 1)..Len(calls) :
    obeys /\ calls[k].op = "Next" /\ calls[k].res = Done =>
      /\ (calls[j].op = "Next" => calls[j].res = Done)
      /\ (calls[j].op = "Close" => calls[j].res = Nil)

C10_NextReturnsCloseError ==
  \A j \in 1..Len(genCalls) :
    /\ (genCalls[j].closed /\ (j = 1 \/ ~genCalls[j - 1].closed)
          => genCalls[j].res = (IF ferr = Nil THEN Done ELSE ferr))
    /\ (j > 1 /\ genCalls[j - 1].closed
          => genCalls[j].res = Done /\ genCalls[j].closed)

\* a value, then the emitting function ends with closeError inside the second
\* Next, then Done
C10_Witness ==
  /\ ferr = closeError
  /\ Len(genCalls) = 3
  /\ \A k \in 1..3 : genCalls[k].ptr # NilPtr
  /\ genCalls[1].res = Nil /\ ~genCalls[1].closed
  /\ genCalls[2].res = closeError /\ genCalls[2].closed
  /\ genCalls[3].res = Done

\* C11: when the emitting function, given the nil pointer of Close, calls
\* Return again rather than returning, the Next(nil) made by Close comes
\* back with the generator open and the outcome just passed to Return; Close
\* then returns the did-not-return error, not that outcome, and the
\* generator stays open.
C11_CloseReportsNoReturn ==
  /\ (cpc = "return" /\ frames # <<>> /\ Last(frames) = "genClose" /\ ~isClosed
        => ppc = "returnRecv" /\ ptr = NilPtr /\ cres = Last(returned).err)
  /\ (cpc = "return" /\ frames = <<>> /\ cop = "Close" /\ ~isClosed
        => cres = notReturnedError /\ ppc = "returnRecv")
  /\ \A j \in 1..Len(calls) :
       calls[j].op = "Close" /\ ~calls[j].closed
         => calls[j].res = notReturnedError /\ calls[j].fin = 0

\* the emitting function has answered the nil pointer of Close with a value;
\* Close has returned the did-not-return error
C11_Witness ==
  /\ ~obeys /\ ~wrapped
  /\ Len(calls) = 1 /\ calls[1].op = "Close"
  /\ calls[1].res = notReturnedError /\ ~calls[1].closed
  /\ Len(returned) = 1 /\ returned[1].err = Nil
  /\ ~isClosed /\ ppc = "returnRecv"

\* C13: while the emitting function runs, EmitPtr() is the pointer given to
\* the call of Next that is waiting for it, and is nil exactly when that
\* call was made by Close; the value of EmitPtr() changes only when the
\* receive of startEmitter or of Return completes.
C13_EmitPtrIsPendingSlot ==
  /\ [](ppc = "run" =>
          /\ cpc = "recvErr"
          /\ EmitPtr = cptr
          /\ (EmitPtr = NilPtr <=>
                (Len(frames) >= 2 /\ frames[Len(frames) - 1] = "genClose")))
  /\ [][ptr' # ptr => ppc \in {"startEmitter", "returnRecv"} /\ ppc' = "run"]_vars

\* the emitting function runs for the second Next call, made with the other
\* pointer
C13_Witness ==
  /\ ppc = "run" /\ pidx = 2 /\ Len(genCalls) = 1
  /\ genCalls[1].ptr = 1 /\ EmitPtr = 2 /\ cptr = 2

(***************************************************************************)
(* Claims about Return(Done), checked under SpecPanic                      *)
(***************************************************************************)
\* C12: Return(Done) panics: it never gets to its send, so no call of
\* regularGenerator.Next is answered by a Return with Done. The caller
\* receives Done on errCh only from endEmitter, when the emitting function
\* is over (it has returned or panicked), and a Next that returns Done
\* leaves the generator closed.
C12_ReturnDonePanics ==
  /\ (pout = Done => ppc \in {"endEmitterDone", "endEmitterErr", "panicking", "crashed"})
  /\ \A k \in 1..Len(returned) : returned[k].err # Done
  /\ (cpc = "recvCloseResult" =>
        ppc = "endEmitterErr" /\ (finished = 1 \/ pout = Done))
  /\ \A j \in 1..Len(genCalls) : genCalls[j].res = Done => genCalls[j].closed

\* after one value the emitting function has called Return(Done); the
\* process has crashed while the second Next was returning
C12_Witness ==
  /\ ppc = "crashed" /\ pout = Done
  /\ script = <<Nil, Done>>
  /\ Len(calls) = 1 /\ calls[1].res = Nil /\ calls[1].val = 1
  /\ cop = "Next"

(***************************************************************************)
(* Claims about EmitAll, checked under SpecEmitAll                         *)
(***************************************************************************)
\* the calls EmitAll has made on s
SourceNexts == SelectSeq(upLog, LAMBDA c : c.op = "Next")
SourceCloses == SelectSeq(upLog, LAMBDA c : c.op = "Close")

\* C14: when EmitAll finds EmitPtr() nil it makes no further call of
\* s.Next, calls s.Close() once, and returns the error of that Close, or
\* Done when that is nil.
C14_EmitAllClosesWhenClosed ==
  finished = 1 /\ ptr = NilPtr =>
    /\ Len(SourceCloses) = 1
    /\ Last(upLog).op = "Close"
    /\ perr = (IF upCloseErr = Nil THEN Done ELSE upCloseErr)
    /\ Len(SourceNexts) = Len(returned)

\* after one value the generator was closed: EmitAll has closed s and
\* returned Done
C14_Witness ==
  /\ finished = 1 /\ ptr = NilPtr
  /\ Len(upScript) = 2 /\ upCloseErr = Nil
  /\ upLog = <<[op |-> "Next", res |-> Nil, val |-> 1],
               [op |-> "Close", res |-> Nil, val |-> 0]>>
  /\ perr = Done

\* C15 as claimed: when s.Next returns Done while EmitPtr() is not nil,
\* EmitAll closes s and returns the error of that Close, or Done.
C15_EmitAllClosesExhausted ==
  finished = 1 /\ ptr # NilPtr =>
    /\ Len(SourceCloses) = 1
    /\ perr = (IF upCloseErr = Nil THEN Done ELSE upCloseErr)

\* C15, amended: when s.Next returns Done while EmitPtr() is not nil,
\* EmitAll returns nil at once: it calls neither s.Next again nor s.Close,
\* whatever s.Close would return.
C15_EmitAllReturnsNilExhausted ==
  finished = 1 /\ ptr # NilPtr =>
    /\ Len(SourceCloses) = 0
    /\ Last(upLog) = [op |-> "Next", res |-> Done, val |-> 0]
    /\ Len(SourceNexts) = Len(returned) + 1
    /\ perr = Nil

\* s has emitted its two values and then Done; EmitAll has returned nil and
\* not called s.Close, which would have returned closeError
C15_Witness ==
  /\ finished = 1 /\ ptr # NilPtr
  /\ Len(upScript) = 2 /\ upCloseErr = closeError
  /\ Len(upLog) = 3 /\ upLog[3].res = Done
  /\ perr = Nil

(***************************************************************************)
(* MultiConsume (consumers.go)                                             *)
(***************************************************************************)
\* MultiConsume(s, ptr, copier, consumers...) has been called with
\* nConsumers Consumers; s emits upScript and then Done.
InitMC ==
  /\ NoStream
  /\ NoGenerator
  /\ nConsumers \in 0..MaxConsumers
  /\ streams = [i \in Consumers |-> [ptr |-> NilPtr, closed |-> FALSE]]
  /\ mcErr = Nil
  /\ shared = 0
  /\ epc = "start"
  /\ ei = 1
  /\ result = FALSE
  /\ mcResult = Nil
  /\ upScript \in SeqsUpTo(Outcomes, MaxUp)
  /\ upIdx = 1
  /\ upCloseErr \in {Nil, closeError}
  /\ upLog = <<>>
  /\ gpc = [i \in Consumers |-> "none"]
  /\ gptr = [i \in Consumers |-> NilPtr]
  /\ gres = [i \in Consumers |-> Nil]
  /\ gmem = [i \in Consumers |-> [p \in Slots |-> 0]]
  /\ got = [i \in Consumers |-> <<>>]

\* isClosed of the i-th splitStream (emitter_stream.go:51-53)
streamIsClosed(st, i) == st[i].closed

\* the first index >= i of a stream that passes the !isClosed() test of the
\* loops of asyncReturn (consumers.go:76-78, 82-83); nConsumers + 1 if none
RECURSIVE NextOpen(_, _)
NextOpen(st, i) ==
  IF i > nConsumers THEN nConsumers + 1
  ELSE IF ~streamIsClosed(st, i) THEN i
  ELSE NextOpen(st, i + 1)

\* asyncReturn is entered (consumers.go:75-80): the thread runs to the first
\* send; with no open stream both loops do nothing and it returns false, so
\* MultiConsume goes on to s.Close() (consumers.go:39, 48).
EnterAsyncReturn(st) ==
  IF NextOpen(st, 1) <= nConsumers
    THEN epc' = "asyncSend" /\ ei' = NextOpen(st, 1) /\ result' = FALSE
    ELSE epc' = "close" /\ ei' = 1 /\ result' = FALSE

\* MultiConsume up to the first asyncReturn (consumers.go:25-39): the
\* goroutines are started, each about to run startStream.
MultiConsumeStart ==
  /\ epc = "start"
  /\ gpc' = [i \in Consumers |-> IF i <= nConsumers THEN "startStream" ELSE "none"]
  /\ EnterAsyncReturn(streams)
  /\ UNCHANGED <<generatorVars, streamVars>>
  /\ UNCHANGED <<nConsumers, streams, mcErr, shared, mcResult, upScript, upIdx,
                 upCloseErr, upLog, gptr, gres, gmem, got>>

\* streams[i].errCh <- err of asyncReturn (consumers.go:76-80) meets either
\* <-s.errCh of startStream (emitter_stream.go:36-38), after which the
\* goroutine calls c.Consume(s), or return <-s.errCh of emitterStream.Next
\* (emitter_stream.go:16). The thread runs on to its next send or, after
\* the last one, to the first receive of the second loop.
AsyncReturnSend ==
  /\ epc = "asyncSend"
  /\ gpc[ei] \in {"startStream", "recvErr"}
  /\ IF gpc[ei] = "startStream"
       THEN gpc' = [gpc EXCEPT ![ei] = "consume"] /\ UNCHANGED gres
       ELSE gpc' = [gpc EXCEPT ![ei] = "nextReturned"]
            /\ gres' = [gres EXCEPT ![ei] = mcErr]
  /\ IF NextOpen(streams, ei + 1) <= nConsumers
       THEN ei' = NextOpen(streams, ei + 1) /\ UNCHANGED epc
       ELSE ei' = NextOpen(streams, 1) /\ epc' = "asyncRecv"
  /\ UNCHANGED <<generatorVars, streamVars>>
  /\ UNCHANGED <<nConsumers, streams, mcErr, shared, result, mcResult, upScript,
                 upIdx, upCloseErr, upLog, gptr, gmem, got>>

\* MultiConsume that leaves its loop after the first asyncReturn
AfterAsyncReturnLeaves(res) == "close"

\* MultiConsume that leaves its loop once the upstream has returned Done
AfterAsyncReturnStopsAtDone(res) == IF res /\ mcErr # Done THEN "next" ELSE "close"

\* where asyncReturn goes when its second loop is over (consumers.go:92,
\* 39-40, 48)
AfterAsyncReturn(res) == IF res THEN "next" ELSE "close"

\* asyncReturn that never closes a stream
NilPtrClosesNever(p) == FALSE

\* asyncReturn closes the stream that handed it a nil pointer
\* (consumers.go:85-86)
NilPtrCloses(p) == p = NilPtr

\* streams[i].ptr = <-streams[i].ptrCh of asyncReturn (consumers.go:84) meets
\* either s.ptrCh <- ptr of emitterStream.Next (emitter_stream.go:15) or
\* s.ptrCh <- nil of the deferred endStream (emitter_stream.go:40-42), after
\* which the goroutine is over. A nil pointer closes the stream
\* (consumers.go:85-89).
AsyncReturnRecv ==
  /\ epc = "asyncRecv"
  /\ gpc[ei] \in {"sendPtr", "endStream"}
  /\ LET p == IF gpc[ei] = "sendPtr" THEN gptr[ei] ELSE NilPtr
         st == [streams EXCEPT ![ei] = [ptr |-> p, closed |-> NilPtrCloses(p)]]
         res == result \/ p # NilPtr
     IN  /\ streams' = st
         /\ result' = res
         /\ gpc' = [gpc EXCEPT ![ei] = IF p = NilPtr THEN "exit" ELSE "recvErr"]
         /\ IF NextOpen(st, ei + 1) <= nConsumers
              THEN ei' = NextOpen(st, ei + 1) /\ UNCHANGED epc
              ELSE ei' = 1 /\ epc' = AfterAsyncReturn(res)
  /\ UNCHANGED <<generatorVars, streamVars>>
  /\ UNCHANGED <<nConsumers, mcErr, shared, mcResult, upScript, upIdx, upCloseErr,
                 upLog, gptr, gres, gmem, got>>

\* s.Next(ptr) of the upstream: the next item of upScript, then Done
upNextErr == IF upIdx <= Len(upScript) THEN upScript[upIdx] ELSE Done
upNextVal == IF upIdx <= Len(upScript) /\ upScript[upIdx] = Nil
               THEN ItemAt(upScript, upIdx).val ELSE shared

\* a loop that copies to the first open stream only
CopyTargetsFirstOnly ==
  {i \in 1..nConsumers : ~streamIsClosed(streams, i) /\ i = NextOpen(streams, 1)}

\* the streams that get a copy of the round's value (consumers.go:42-43)
CopyTargets == {i \in 1..nConsumers : ~streamIsClosed(streams, i)}

\* One round of the loop of MultiConsume (consumers.go:40-46): err =
\* s.Next(ptr), a copy of *ptr to the pointer of every stream not closed,
\* and on to the first send of asyncReturn(streams, err).
MultiConsumeRound ==
  /\ epc = "next"
  /\ mcErr' = upNextErr
  /\ shared' = upNextVal
  /\ upIdx' = IF upIdx <= Len(upScript) THEN upIdx + 1 ELSE upIdx
  /\ upLog' = Append(upLog, [op |-> "Next", res |-> upNextErr,
                             val |-> IF upNextErr = Nil THEN upNextVal ELSE 0])
  /\ gmem' = [i \in Consumers |->
               IF i \in CopyTargets
                 THEN [gmem[i] EXCEPT ![streams[i].ptr] = upNextVal]
                 ELSE gmem[i]]
  /\ EnterAsyncReturn(streams)
  /\ UNCHANGED <<generatorVars, streamVars>>
  /\ UNCHANGED <<nConsumers, streams, mcResult, upScript, upCloseErr, gpc, gptr,
                 gres, got>>

\* MultiConsume that drops the outcome of s.Close()
ReturnedCloseDropped(e) == Nil

\* MultiConsume that returns the last error of s.Next, if any
ReturnedCloseOrNextError(e) == IF mcErr \notin {Nil, Done} THEN mcErr ELSE e

\* what MultiConsume returns: the outcome of s.Close() (consumers.go:48)
ReturnedClose(e) == e

\* return s.Close() (consumers.go:48)
MultiConsumeClose ==
  /\ epc = "close"
  /\ upLog' = Append(upLog, [op |-> "Close", res |-> upCloseErr, val |-> 0])
  /\ mcResult' = ReturnedClose(upCloseErr)
  /\ epc' = "done"
  /\ UNCHANGED <<generatorVars, streamVars>>
  /\ UNCHANGED <<nConsumers, streams, mcErr, shared, ei, result, upScript, upIdx,
                 upCloseErr, gpc, gptr, gres, gmem, got>>

\* Inside c.Consume(s) the Consumer calls s.Next(p): splitStream.Next up to
\* the send on ptrCh (consumers.go:64-69, emitter_stream.go:15).
ConsumeCallsNext(i, p) ==
  /\ gpc[i] \in {"consume", "closeReturned"}
  /\ Len(got[i]) < MaxNexts
  /\ gptr' = [gptr EXCEPT ![i] = p]
  /\ gpc' = [gpc EXCEPT ![i] = "sendPtr"]
  /\ UNCHANGED <<generatorVars, streamVars>>
  /\ UNCHANGED <<nConsumers, streams, mcErr, shared, epc, ei, result, mcResult,
                 upScript, upIdx, upCloseErr, upLog, gres, gmem, got>>

\* splitStream.Next has returned: the Consumer reads the outcome and, when it
\* is nil, the value behind its pointer (consumers_test.go:115-117).
ConsumeReadsNext(i) ==
  /\ gpc[i] = "nextReturned"
  /\ got' = [got EXCEPT ![i] = Append(@,
               [res |-> gres[i],
                val |-> IF gres[i] = Nil THEN gmem[i][gptr[i]] ELSE 0])]
  /\ gpc' = [gpc EXCEPT ![i] = "consume"]
  /\ UNCHANGED <<generatorVars, streamVars>>
  /\ UNCHANGED <<nConsumers, streams, mcErr, shared, epc, ei, result, mcResult,
                 upScript, upIdx, upCloseErr, upLog, gptr, gres, gmem>>

\* c.Consume(s) returns, at any point the Consumer chooses; the deferred
\* endStream is next (consumers.go:32-36).
ConsumeReturns(i) ==
  /\ gpc[i] \in {"consume", "closeReturned"}
  /\ gpc' = [gpc EXCEPT ![i] = "endStream"]
  /\ UNCHANGED <<generatorVars, streamVars>>
  /\ UNCHANGED <<nConsumers, streams, mcErr, shared, epc, ei, result, mcResult,
                 upScript, upIdx, upCloseErr, upLog, gptr, gres, gmem, got>>

NextMC ==
  \/ MultiConsumeStart
  \/ AsyncReturnSend
  \/ AsyncReturnRecv
  \/ MultiConsumeRound
  \/ MultiConsumeClose
  \/ \E i \in 1..nConsumers, p \in Slots : ConsumeCallsNext(i, p)
  \/ \E i \in 1..nConsumers : ConsumeReadsNext(i)
  \/ \E i \in 1..nConsumers : ConsumeReturns(i)

SpecMC == InitMC /\ [][NextMC]_vars

\* the calling thread of MultiConsume, and the goroutine of one Consumer
EngineStep ==
  \/ MultiConsumeStart
  \/ AsyncReturnSend
  \/ AsyncReturnRecv
  \/ MultiConsumeRound
  \/ MultiConsumeClose

ConsumerStep(i) ==
  \/ \E p \in Slots : ConsumeCallsNext(i, p)
  \/ ConsumeReadsNext(i)
  \/ ConsumeReturns(i)

\* Go runs every goroutine that can take a step.
FairSpecMC ==
  SpecMC /\ WF_vars(EngineStep) /\ \A i \in Consumers : WF_vars(ConsumerStep(i))

\* ------------------------------------------ Consumers that call Close
\* MultiConsume over an upstream that emits values only, with Consumers that
\* may call Close on their private stream, themselves or through a wrapper.
InitMCClose ==
  /\ NoStream
  /\ NoGenerator
  /\ nConsumers \in 1..MaxConsumers
  /\ streams = [i \in Consumers |-> [ptr |-> NilPtr, closed |-> FALSE]]
  /\ mcErr = Nil /\ shared = 0 /\ epc = "start" /\ ei = 1
  /\ result = FALSE /\ mcResult = Nil
  /\ upScript \in {[k \in 1..n |-> Nil] : n \in 0..MaxUp}
  /\ upIdx = 1
  /\ upCloseErr = Nil
  /\ upLog = <<>>
  /\ gpc = [i \in Consumers |-> "none"]
  /\ gptr = [i \in Consumers |-> NilPtr]
  /\ gres = [i \in Consumers |-> Nil]
  /\ gmem = [i \in Consumers |-> [p \in Slots |-> 0]]
  /\ got = [i \in Consumers |-> <<>>]

\* a Close of the private stream that returns closeError
SplitStreamCloseFails == closeError

\* splitStream.Close (consumers.go:71-73)
SplitStreamClose == Nil

\* Inside c.Consume(s) the Consumer, or a wrapper such as Slice that it has
\* put around s, calls s.Close(): the call returns at once and touches
\* nothing (consumers.go:71-73). The Consumer goes on with a call of Next or
\* returns.
ConsumeCallsClose(i) ==
  /\ gpc[i] = "consume"
  /\ gpc' = [gpc EXCEPT ![i] = "closeReturned"]
  /\ gres' = [gres EXCEPT ![i] = SplitStreamClose]
  /\ UNCHANGED <<generatorVars, streamVars>>
  /\ UNCHANGED <<nConsumers, streams, mcErr, shared, epc, ei, result, mcResult,
                 upScript, upIdx, upCloseErr, upLog, gptr, gmem, got>>

NextMCClose ==
  \/ MultiConsumeStart
  \/ AsyncReturnSend
  \/ AsyncReturnRecv
  \/ MultiConsumeRound
  \/ MultiConsumeClose
  \/ \E i \in 1..nConsumers, p \in Slots : ConsumeCallsNext(i, p)
  \/ \E i \in 1..nConsumers : ConsumeReadsNext(i)
  \/ \E i \in 1..nConsumers : ConsumeReturns(i)
  \/ \E i \in 1..nConsumers : ConsumeCallsClose(i)

SpecMCClose == InitMCClose /\ [][NextMCClose]_vars

\* -------------------------------------- Consumers that read past the end
\* MultiConsume over an upstream of MaxUp - 1 values at most, so that a
\* Consumer has calls of Next left when it has been given Done.
InitPastEnd ==
  /\ NoStream
  /\ NoGenerator
  /\ nConsumers \in 1..MaxConsumers
  /\ streams = [i \in Consumers |-> [ptr |-> NilPtr, closed |-> FALSE]]
  /\ mcErr = Nil /\ shared = 0 /\ epc = "start" /\ ei = 1
  /\ result = FALSE /\ mcResult = Nil
  /\ upScript \in {[k \in 1..n |-> Nil] : n \in 0..(MaxUp - 1)}
  /\ upIdx = 1
  /\ upCloseErr = Nil
  /\ upLog = <<>>
  /\ gpc = [i \in Consumers |-> "none"]
  /\ gptr = [i \in Consumers |-> NilPtr]
  /\ gres = [i \in Consumers |-> Nil]
  /\ gmem = [i \in Consumers |-> [p \in Slots |-> 0]]
  /\ got = [i \in Consumers |-> <<>>]

FairSpecPastEnd ==
  /\ InitPastEnd /\ [][NextMC]_vars
  /\ WF_vars(EngineStep) /\ \A i \in Consumers : WF_vars(ConsumerStep(i))

(***************************************************************************)
(* Claims about MultiConsume, checked under SpecMC, FairSpecMC and         *)
(* SpecMCClose                                                             *)
(***************************************************************************)
UpNexts == SelectSeq(upLog, LAMBDA c : c.op = "Next")
UpCloses == SelectSeq(upLog, LAMBDA c : c.op = "Close")

\* C2: the k-th Next call of every Consumer on its private stream returns
\* the outcome of the k-th Next call on the upstream, and when that is nil
\* the Consumer finds the upstream's k-th value behind its pointer.
C2_KthNextIsKthUpstreamNext ==
  \A i \in 1..nConsumers :
    /\ Len(got[i]) <= Len(UpNexts)
    /\ \A k \in 1..Len(got[i]) :
         got[i][k].res = UpNexts[k].res /\ got[i][k].val = UpNexts[k].val

\* two Consumers have read the first value, and the first one the second
\* value too after the other had stopped
C2_Witness ==
  /\ nConsumers = 2
  /\ Len(got[1]) = 2 /\ got[1][1].val = 1 /\ got[1][2].val = 2
  /\ Len(got[2]) = 1 /\ got[2][1].val = 1
  /\ gpc[2] = "exit"

\* C3: MultiConsume calls Close on the upstream exactly once, as the last
\* call it makes on it and after its loop, and returns the outcome of that
\* call, with any number of Consumers.
C3_UpstreamClosedOnce ==
  /\ Len(UpCloses) <= 1
  /\ (Len(UpCloses) = 1 => Last(upLog).op = "Close" /\ epc = "done")
  /\ (epc = "done" => Len(UpCloses) = 1 /\ mcResult = Last(upLog).res)

\* MultiConsume has returned the closeError of the upstream without any
\* round, its two Consumers having returned at once
C3_Witness ==
  /\ epc = "done"
  /\ nConsumers = 2
  /\ upLog = <<[op |-> "Close", res |-> closeError, val |-> 0]>>
  /\ mcResult = closeError

\* C4: a Consumer that returns from Consume without draining its stream
\* does not block the others: every Next call of a Consumer returns, a
\* Consumer that is over gets nothing more, and MultiConsume returns.
C4_EarlyReturnDoesNotBlock ==
  /\ \A i \in Consumers : (gpc[i] = "sendPtr") ~> (gpc[i] = "consume")
  /\ [][\A i \in Consumers : gpc[i] = "exit" =>
          gpc'[i] = "exit" /\ got'[i] = got[i] /\ gmem'[i] = gmem[i]]_vars
  /\ <>(epc = "done")

\* MultiConsume has returned; the first Consumer never called Next, the
\* second one read two values
C4_Witness ==
  /\ epc = "done"
  /\ nConsumers = 2
  /\ got[1] = <<>>
  /\ Len(got[2]) = 2 /\ got[2][2].res = Nil /\ got[2][2].val = 2

\* C5: MultiConsume neither closes the upstream nor returns before the
\* Consume call of every Consumer has returned.
C5_ClosesAfterAllConsumed ==
  (Len(UpCloses) > 0 \/ epc = "done") =>
     \A i \in 1..nConsumers : gpc[i] = "exit"

\* MultiConsume has returned after two rounds with two Consumers
C5_Witness ==
  /\ epc = "done"
  /\ nConsumers = 2
  /\ Len(got[1]) = 2
  /\ Len(got[2]) = 2

\* C16: Close of a Consumer's private stream returns nil and changes
\* nothing: neither the stream, nor the upstream, nor the calling thread of
\* MultiConsume. Every call of Next or Close on the upstream is a step of
\* that thread; no step of a Consumer goroutine, whether it calls Next or
\* Close or returns, calls the upstream or moves it on.
C16_PrivateCloseDoesNothing ==
  /\ [](\A i \in 1..nConsumers : gpc[i] = "closeReturned" => gres[i] = Nil)
  /\ [][\A i \in 1..nConsumers :
          gpc[i] = "consume" /\ gpc'[i] = "closeReturned" =>
            UNCHANGED <<streams, upLog, upIdx, shared, mcErr, epc, ei, result,
                        mcResult, gmem, got>>]_vars
  /\ [][upLog' # upLog \/ upIdx' # upIdx =>
          epc \in {"next", "close"} /\ epc' # epc /\ UNCHANGED <<gpc, got>>]_vars

\* after the first value one Consumer has called Close on its stream while
\* the other is asking for the second value; the upstream has had one call
\* of Next and none of Close
C16_Witness ==
  /\ nConsumers = 2
  /\ gpc[1] = "closeReturned" /\ Len(got[1]) = 1 /\ got[1][1].val = 1
  /\ gpc[2] = "sendPtr" /\ Len(got[2]) = 1
  /\ Len(UpCloses) = 0 /\ Len(UpNexts) = 1
  /\ ~streamIsClosed(streams, 1)

\* the Consumer has called Next again after a call that returned Done
PastEnd(i) ==
  \E k \in 1..Len(got[i]) : got[i][k].res = Done /\ k < Len(got[i])

\* C17 as claimed: the calls of Next a Consumer makes after it was given
\* Done return Done, and no call of Next is made on the upstream for them:
\* the upstream is not called again once its Next has returned Done.
C17_NoUpstreamNextPastEnd ==
  /\ \A i \in 1..nConsumers : \A k \in 1..Len(got[i]) : \A j \in (k + 1)..Len(got[i]) :
       got[i][k].res = Done => got[i][j].res = Done
  /\ \A k \in 1..(Len(UpNexts) - 1) : UpNexts[k].res # Done

\* C17, amended: a call of Next that a Consumer makes after it was given
\* Done takes the calling thread of MultiConsume through its loop once
\* more: the j-th call of the Consumer is answered with the outcome of a
\* j-th call of Next on the upstream, which is Done again; every such call
\* returns, and MultiConsume returns once the Consumers have returned.
C17_PastEndRepeatsUpstreamNext ==
  /\ [](\A i \in 1..nConsumers : \A k \in 1..Len(got[i]) : \A j \in (k + 1)..Len(got[i]) :
         got[i][k].res = Done =>
           /\ got[i][j].res = Done
           /\ j <= Len(UpNexts)
           /\ UpNexts[j].res = Done /\ UpNexts[j - 1].res = Done)
  /\ \A i \in Consumers :
       (i <= nConsumers /\ gpc[i] = "sendPtr" /\ got[i] # <<>> /\ Last(got[i]).res = Done)
         ~> (gpc[i] = "consume" /\ PastEnd(i))
  /\ \A i \in Consumers : (i <= nConsumers /\ PastEnd(i)) ~> (epc = "done")

\* over an empty upstream a Consumer has called Next twice and got Done
\* twice, the upstream's Next has been called twice, and MultiConsume has
\* returned
C17_Witness ==
  /\ epc = "done" /\ mcResult = Nil
  /\ nConsumers = 2 /\ upScript = <<>>
  /\ Len(got[1]) = 2 /\ got[1][1].res = Done /\ got[1][2].res = Done
  /\ Len(got[2]) = 1
  /\ Len(UpNexts) = 2

\* C18: what MultiConsume returns is the outcome of its call of Close on the
\* upstream, whatever the calls of Next on the upstream returned. An error
\* of the upstream's Next is the outcome of the Next call of every Consumer
\* of that round; MultiConsume does not ask for the item again, and goes on
\* with the next item when a Consumer calls Next again.
C18_OnlyCloseOutcomeReturned ==
  /\ (epc = "done" => mcResult = upCloseErr)
  /\ \A k \in 1..Len(UpNexts) :
       UpNexts[k].res = (IF k <= Len(upScript) THEN upScript[k] ELSE Done)
  /\ \A i \in 1..nConsumers : \A k \in 1..Len(got[i]) :
       k <= Len(upScript) /\ upScript[k] = scanError => got[i][k].res = scanError

\* the upstream has given a value and then scanError to both Consumers;
\* MultiConsume has returned nil, the outcome of Close
C18_Witness ==
  /\ epc = "done" /\ mcResult = Nil /\ mcErr = scanError
  /\ nConsumers = 2 /\ upScript = <<Nil, scanError>>
  /\ \A i \in 1..2 : Len(got[i]) = 2 /\ got[i][1].val = 1 /\ got[i][2].res = scanError

(***************************************************************************)
(* Streams of functional.go: Filter, Map, Slice, TakeWhile, DropWhile,     *)
(* Concat and Flatten over sources. A Stream is a record that holds the    *)
(* Streams under it; Next and Close take the record and give the outcome   *)
(* of the call with the record after it.                                   *)
(***************************************************************************)
filterError == "filterError"
mapError == "mapError"

\* what Filter of a Filterer and Map of a Mapper can return
FilterOutcomes == {Nil, Skipped, filterError}
MapOutcomes == {Nil, Skipped, mapError}

\* The Filterers and Mappers of the tests look at the parity of the value
\* (functional_test.go:52-58); a Mapper stores MappedValue of its value.
Parities == {0, 1}
FilterFns == [Parities -> FilterOutcomes]
MapFns == [Parities -> MapOutcomes]
MappedValue(v) == v + 11

\* NewFilterer (functional.go:321-323)
NewFilterer(fn) == [kind |-> "func", fn |-> fn]

\* an orList that unpacks an andFilterer as well
orListOfBoth(f) == IF f.kind \in {"or", "and"} THEN f.fs ELSE <<f>>

\* orList (functional.go:745-751) and andList (functional.go:753-759)
orList(f) == IF f.kind = "or" THEN f.fs ELSE <<f>>
andList(f) == IF f.kind = "and" THEN f.fs ELSE <<f>>

\* filterFlatten (functional.go:761-772)
RECURSIVE filterFlatten(_)
filterFlatten(ls) ==
  IF ls = <<>> THEN <<>> ELSE Head(ls) \o filterFlatten(Tail(ls))

\* Any (functional.go:266-275) and All (functional.go:279-289) of the
\* Filterers of the sequence fs; falseFilterer and trueFilterer
\* (functional.go:18-19) are the orFilterer and the andFilterer of no Filterer.
\* Any is written AnyOf, the module TLC having an Any of its own.
AnyOf(fs) == [kind |-> "or", fs |-> filterFlatten([i \in 1..Len(fs) |-> orList(fs[i])])]
All(fs) == [kind |-> "and", fs |-> filterFlatten([i \in 1..Len(fs) |-> andList(fs[i])])]

\* an orFilterer that goes on to its next Filterer on an error
orReturnsNilOnly(err) == err = Nil

\* orFilterer.Filter returns the first outcome that is not Skipped
\* (functional.go:681-683)
orReturns(err) == err # Skipped

\* funcFilterer.Filter (functional.go:662-664), andFilterer.Filter
\* (functional.go:668-675) and orFilterer.Filter (functional.go:679-686)
RECURSIVE FiltererFilter(_, _)
RECURSIVE andFiltererFilter(_, _, _)
RECURSIVE orFiltererFilter(_, _, _)
FiltererFilter(f, v) ==
  CASE f.kind = "func" -> f.fn[v % 2]
    [] f.kind = "and" -> andFiltererFilter(f.fs, 1, v)
    [] f.kind = "or" -> orFiltererFilter(f.fs, 1, v)

orFiltererFilter(fs, i, v) ==
  IF i > Len(fs) THEN Skipped
  ELSE LET err == FiltererFilter(fs[i], v)
       IN  IF orReturns(err) THEN err ELSE orFiltererFilter(fs, i + 1, v)

\* the funcFilterers that f.Filter runs on the value v, in the order of their
\* calls: the loops of andFilterer.Filter (functional.go:669-673) and of
\* orFilterer.Filter (functional.go:680-684)
RECURSIVE FilterCalls(_, _)
RECURSIVE listFilterCalls(_, _, _, _)
FilterCalls(f, v) ==
  IF f.kind = "func" THEN <<f>> ELSE listFilterCalls(f.kind, f.fs, 1, v)

listFilterCalls(kind, fs, i, v) ==
  IF i > Len(fs) THEN <<>>
  ELSE LET err == FiltererFilter(fs[i], v)
           stops == IF kind = "and" THEN err # Nil ELSE orReturns(err)
       IN  FilterCalls(fs[i], v)
             \o (IF stops THEN <<>> ELSE listFilterCalls(kind, fs, i + 1, v))

andFiltererFilter(fs, i, v) ==
  IF i > Len(fs) THEN Nil
  ELSE LET err == FiltererFilter(fs[i], v)
       IN  IF err # Nil THEN err ELSE andFiltererFilter(fs, i + 1, v)

\* NewMapper (functional.go:329-331) and FastCompose (functional.go:309-316,
\* 799-813): the pieces of g, then the pieces of f
NewMapper(fn) == [kind |-> "func", fn |-> fn]
mapperPieces(m) == IF m.kind = "fast" THEN m.pieces ELSE <<m>>
FastComposeReversed(f, g) == [kind |-> "fast", pieces |-> mapperPieces(f) \o mapperPieces(g)]
FastCompose(f, g) == [kind |-> "fast", pieces |-> mapperPieces(g) \o mapperPieces(f)]

\* funcMapper.Map (functional.go:690-692) and fastCompositeMapper.Map
\* (functional.go:698-715): the outcome, and the value stored when it is nil
RECURSIVE MapperMap(_, _)
RECURSIVE fastCompositeMapperMap(_, _, _)
MapperMap(m, v) ==
  IF m.kind = "func"
    THEN [err |-> m.fn[v % 2], val |-> IF m.fn[v % 2] = Nil THEN MappedValue(v) ELSE 0]
    ELSE fastCompositeMapperMap(m.pieces, 1, v)

fastCompositeMapperMap(pieces, i, v) ==
  IF i > Len(pieces) THEN [err |-> Nil, val |-> v]
  ELSE LET r == MapperMap(pieces[i], v)
       IN  IF r.err # Nil THEN [err |-> r.err, val |-> 0]
           ELSE fastCompositeMapperMap(pieces, i + 1, r.val)

\* ------------------------------------------------------------ constructors
\* A source: a Stream that emits the outcomes of q one after the other, the
\* k-th value being base + k, and then Done; its Close returns ce. It counts
\* the calls made on it (streamCloseChecker, functional_test.go:1149-1185).
Source(q, ce, base) ==
  [kind |-> "source",
   items |-> [k \in 1..Len(q) |-> [err |-> q[k], val |-> IF q[k] = Nil THEN base + k ELSE 0]],
   idx |-> 1, closeErr |-> ce, nexts |-> 0, closes |-> 0, dones |-> 0]

\* a source that emits the Streams of ss
SourceOfStreams(ss, ce) ==
  [kind |-> "source",
   items |-> [k \in 1..Len(ss) |-> [err |-> Nil, val |-> ss[k]]],
   idx |-> 1, closeErr |-> ce, nexts |-> 0, closes |-> 0, dones |-> 0]

\* NilStream (functional.go:117-119)
NilStream == [kind |-> "nil"]

\* a Filter that puts the new Filterer in front of the one it finds
FilterFusedInFront(f, s) ==
  IF s.kind = "filter"
    THEN [kind |-> "filter", filterer |-> All(<<f, s.filterer>>), inner |-> s.inner]
    ELSE [kind |-> "filter", filterer |-> f, inner |-> s]

\* Filter (functional.go:144-150)
Filter(f, s) ==
  IF s.kind = "filter"
    THEN [kind |-> "filter", filterer |-> All(<<s.filterer, f>>), inner |-> s.inner]
    ELSE [kind |-> "filter", filterer |-> f, inner |-> s]

\* Map (functional.go:128-138), for Mappers that are not CompositeMappers
Map(m, s) ==
  IF s.kind = "map"
    THEN [kind |-> "map", mapper |-> FastCompose(m, s.mapper), inner |-> s.inner]
    ELSE [kind |-> "map", mapper |-> m, inner |-> s]

\* Slice (functional.go:169-171)
Slice(s, start, end) ==
  [kind |-> "slice", inner |-> s, start |-> start, end |-> end,
   index |-> 0, done |-> FALSE]

\* TakeWhile and DropWhile (functional.go:251-262); fnil is s.f == nil and
\* fcalls counts the calls of the Filter method of f
TakeWhile(f, s) ==
  [kind |-> "take", inner |-> s, f |-> f, fnil |-> FALSE, fcalls |-> 0]
DropWhile(f, s) ==
  [kind |-> "drop", inner |-> s, f |-> f, fnil |-> FALSE, fcalls |-> 0]

\* Concat (functional.go:214-216); idx counts from 1
Concat(ss) == [kind |-> "concat", s |-> ss, idx |-> 1]

\* Flatten (functional.go:241-243)
Flatten(s) == [kind |-> "flatten", stream |-> s, current |-> NilStream]

\* ---------------------------------------------------------- Next and Close
\* StreamNext(s) is [err, val, s]: the outcome of s.Next(ptr), the value
\* stored at ptr when the outcome is nil, and s after the call.
\* StreamClose(s) is [err, s].
RECURSIVE StreamNext(_)
RECURSIVE StreamClose(_)
RECURSIVE filterStreamNext(_)
RECURSIVE mapStreamNext(_)
RECURSIVE sliceStreamNext(_)
RECURSIVE dropStreamLoop(_, _)
RECURSIVE concatStreamNext(_)
RECURSIVE concatStreamClose(_, _, _)
RECURSIVE flattenStreamNext(_)

\* the source's Next and Close
sourceNext(s) ==
  IF s.idx <= Len(s.items)
    THEN [err |-> s.items[s.idx].err, val |-> s.items[s.idx].val,
          s |-> [s EXCEPT !.idx = s.idx + 1, !.nexts = s.nexts + 1]]
    ELSE [err |-> Done, val |-> 0,
          s |-> [s EXCEPT !.nexts = s.nexts + 1, !.dones = s.dones + 1]]

sourceClose(s) == [err |-> s.closeErr, s |-> [s EXCEPT !.closes = s.closes + 1]]

\* a filterStream that returns whatever its Filterer returns
FilterReturnsAlways(fe) == TRUE

\* filterStream.Next returns the Filterer's outcome unless it is Skipped
\* (functional.go:391)
FilterReturns(fe) == fe # Skipped

\* filterStream.Next (functional.go:388-396)
filterStreamNext(s) ==
  LET r == StreamNext(s.inner)
      s1 == [s EXCEPT !.inner = r.s]
  IN  IF r.err # Nil THEN [err |-> r.err, val |-> 0, s |-> s1]
      ELSE LET fe == FiltererFilter(s.filterer, r.val)
           IN  IF FilterReturns(fe)
                 THEN [err |-> fe, val |-> IF fe = Nil THEN r.val ELSE 0, s |-> s1]
                 ELSE filterStreamNext(s1)

\* mapStream.Next (functional.go:355-363)
mapStreamNext(s) ==
  LET r == StreamNext(s.inner)
      s1 == [s EXCEPT !.inner = r.s]
  IN  IF r.err # Nil THEN [err |-> r.err, val |-> 0, s |-> s1]
      ELSE LET m == MapperMap(s.mapper, r.val)
           IN  IF m.err # Skipped
                 THEN [err |-> m.err, val |-> m.val, s |-> s1]
                 ELSE mapStreamNext(s1)

\* a sliceStream that emits one value too early
sliceEmitsOneEarly(index, start) == index >= start

\* sliceStream.Next emits the value it has read once s.index > s.start
\* (functional.go:419-422)
sliceEmits(index, start) == index > start

\* a sliceStream that reads nothing when its window is empty
sliceReadsWindowOnly(s) ==
  (s.end < 0 \/ s.index < s.end) /\ (s.end < 0 \/ s.start < s.end)

\* the condition of the loop of sliceStream.Next (functional.go:410)
sliceReads(s) == s.end < 0 \/ s.index < s.end

\* a sliceStream that closes its inner Stream when that Stream reports Done
sliceStreamInnerDoneCloses(s1) ==
  LET c == StreamClose(s1.inner)
  IN  [err |-> finish(c.err), val |-> 0,
       s |-> [s1 EXCEPT !.done = TRUE, !.inner = c.s]]

\* sliceStream.Next when s.Stream.Next(ptr) has returned Done
\* (functional.go:412-415)
sliceStreamInnerDone(s1) ==
  [err |-> Done, val |-> 0, s |-> [s1 EXCEPT !.done = TRUE]]

\* a sliceStream that forgets that its window has ended
sliceStreamWindowEndNotDone(s) ==
  LET c == StreamClose(s.inner)
  IN  [err |-> finish(c.err), val |-> 0, s |-> [s EXCEPT !.inner = c.s]]

\* sliceStream.Next once the loop is over (functional.go:424-425)
sliceStreamWindowEnd(s) ==
  LET c == StreamClose(s.inner)
  IN  [err |-> finish(c.err), val |-> 0,
       s |-> [s EXCEPT !.done = TRUE, !.inner = c.s]]

\* sliceStream.Next (functional.go:406-426); s.Close() is the Close of the
\* embedded Stream
sliceStreamNext(s) ==
  IF s.done THEN [err |-> Done, val |-> 0, s |-> s]
  ELSE IF sliceReads(s)
    THEN LET r == StreamNext(s.inner)
             s1 == [s EXCEPT !.inner = r.s]
         IN  IF r.err = Done
               THEN sliceStreamInnerDone(s1)
             ELSE IF r.err # Nil
               THEN [err |-> r.err, val |-> 0, s |-> s1]
             ELSE LET s2 == [s1 EXCEPT !.index = s.index + 1]
                  IN  IF sliceEmits(s2.index, s2.start)
                        THEN [err |-> Nil, val |-> r.val, s |-> s2]
                        ELSE sliceStreamNext(s2)
    ELSE sliceStreamWindowEnd(s)

\* a takeStream that ends on whatever is not Ok
takeReturnsOkOnly(fe) == fe = Nil

\* takeStream.Next returns the Filterer's outcome unless it is Skipped
\* (functional.go:630-632)
takeReturns(fe) == fe # Skipped

\* takeStream.Next (functional.go:618-635)
takeStreamNext(s) ==
  IF s.fnil THEN [err |-> Done, val |-> 0, s |-> s]
  ELSE LET r == StreamNext(s.inner)
           s1 == [s EXCEPT !.inner = r.s]
       IN  IF r.err = Done
             THEN [err |-> Done, val |-> 0, s |-> [s1 EXCEPT !.fnil = TRUE]]
           ELSE IF r.err # Nil
             THEN [err |-> r.err, val |-> 0, s |-> s1]
           ELSE LET fe == FiltererFilter(s.f, r.val)
                    s2 == [s1 EXCEPT !.fcalls = s1.fcalls + 1]
                IN  IF takeReturns(fe)
                      THEN [err |-> fe, val |-> IF fe = Nil THEN r.val ELSE 0,
                            s |-> s2]
                      ELSE LET c == StreamClose(s2.inner)
                           IN  [err |-> finish(c.err), val |-> 0,
                                s |-> [s2 EXCEPT !.fnil = TRUE, !.inner = c.s]]

\* a dropStream that keeps its Filterer after the first Skipped
dropKeeps == FALSE

\* dropStream.Next sets s.f to nil on the first Skipped (functional.go:650)
dropForgets == TRUE

\* the loop of dropStream.Next (functional.go:647-657), r being the outcome
\* of the latest s.Stream.Next(ptr)
dropStreamLoop(s, r) ==
  IF r.err # Nil THEN [err |-> r.err, val |-> 0, s |-> s]
  ELSE LET fe == FiltererFilter(s.f, r.val)
           s1 == [s EXCEPT !.fcalls = s.fcalls + 1]
       IN  IF fe = Skipped
             THEN [err |-> Nil, val |-> r.val, s |-> [s1 EXCEPT !.fnil = dropForgets]]
           ELSE IF fe # Nil
             THEN [err |-> fe, val |-> 0, s |-> s1]
           ELSE LET r2 == StreamNext(s1.inner)
                IN  dropStreamLoop([s1 EXCEPT !.inner = r2.s], r2)

\* dropStream.Next (functional.go:642-658)
dropStreamNext(s) ==
  LET r == StreamNext(s.inner)
      s1 == [s EXCEPT !.inner = r.s]
  IN  IF s.fnil THEN [err |-> r.err, val |-> r.val, s |-> s1]
      ELSE dropStreamLoop(s1, r)

\* a concatStream that moves on to its next Stream on any error
concatContinuesOnError(err) == err # Nil

\* concatStream.Next moves on to its next Stream on Done only
\* (functional.go:547-550)
concatContinues(err) == err = Done

\* concatStream.Next (functional.go:545-554)
concatStreamNext(c) ==
  IF c.idx > Len(c.s) THEN [err |-> Done, val |-> 0, s |-> c]
  ELSE LET r == StreamNext(c.s[c.idx])
           c1 == [c EXCEPT !.s[c.idx] = r.s]
       IN  IF concatContinues(r.err)
             THEN concatStreamNext([c1 EXCEPT !.idx = c.idx + 1])
             ELSE [err |-> r.err, val |-> r.val, s |-> c1]

\* a concatStream.Close that keeps the outcome of the last Close
concatCloseResultLast(res0, err) == err

\* concatStream.Close keeps the first outcome that is not nil
\* (functional.go:560-562)
concatCloseResult(res0, err) == IF res0 = Nil THEN err ELSE res0

\* concatStream.Close (functional.go:556-565), from the i-th Stream on
concatStreamClose(c, i, res0) ==
  IF i > Len(c.s) THEN [err |-> res0, s |-> c]
  ELSE LET r == StreamClose(c.s[i])
       IN  concatStreamClose([c EXCEPT !.s[i] = r.s], i + 1,
                             concatCloseResult(res0, r.err))

\* flattenStream.Next (functional.go:591-602)
flattenStreamNext(s) ==
  LET r == StreamNext(s.current)
      s1 == [s EXCEPT !.current = r.s]
  IN  IF r.err # Done THEN [err |-> r.err, val |-> r.val, s |-> s1]
      ELSE LET o == StreamNext(s1.stream)
               s2 == [s1 EXCEPT !.stream = o.s]
           IN  IF o.err # Nil THEN [err |-> o.err, val |-> 0, s |-> s2]
               ELSE flattenStreamNext([s2 EXCEPT !.current = o.val])

\* a flattenStream.Close that returns the outcome of the outer Close
flattenCloseResultOuter(res0, err) == err

\* flattenStream.Close returns the outcome of the Close of the current
\* Stream unless it is nil (functional.go:607-610)
flattenCloseResult(res0, err) == IF res0 = Nil THEN err ELSE res0

\* flattenStream.Close (functional.go:604-611)
flattenStreamClose(s) ==
  LET r == StreamClose(s.current)
      o == StreamClose(s.stream)
  IN  [err |-> flattenCloseResult(r.err, o.err),
       s |-> [s EXCEPT !.current = r.s, !.stream = o.s]]

\* Next of any Stream; nilStream.Next is functional.go:368-370
StreamNext(s) ==
  CASE s.kind = "source" -> sourceNext(s)
    [] s.kind = "nil" -> [err |-> Done, val |-> 0, s |-> s]
    [] s.kind = "filter" -> filterStreamNext(s)
    [] s.kind = "map" -> mapStreamNext(s)
    [] s.kind = "slice" -> sliceStreamNext(s)
    [] s.kind = "take" -> takeStreamNext(s)
    [] s.kind = "drop" -> dropStreamNext(s)
    [] s.kind = "concat" -> concatStreamNext(s)
    [] s.kind = "flatten" -> flattenStreamNext(s)

\* Close of any Stream: filterStream, mapStream, sliceStream, takeStream and
\* dropStream embed their Stream, so their Close is its Close;
\* nilStream.Close is functional.go:372-374
StreamClose(s) ==
  CASE s.kind = "source" -> sourceClose(s)
    [] s.kind = "nil" -> [err |-> Nil, s |-> s]
    [] s.kind \in {"filter", "map", "slice", "take", "drop"} ->
         LET r == StreamClose(s.inner)
         IN  [err |-> r.err, s |-> [s EXCEPT !.inner = r.s]]
    [] s.kind = "concat" -> concatStreamClose(s, 1, Nil)
    [] s.kind = "flatten" -> flattenStreamClose(s)

\* ------------------------------------------------- the caller of a Stream
\* the sources under test: values and scan errors, then Done
Sources ==
  {Source(q, ce, 0) : q \in SeqsUpTo(Outcomes, MaxUp), ce \in {Nil, closeError}}

\* sources that emit MaxUp values and no error (xrange, functional_test.go:1262)
ValueSources ==
  {Source([k \in 1..MaxUp |-> Nil], ce, 0) : ce \in {Nil, closeError}}

\* every wrapper with one inner Stream, over s
Wrappers(s) ==
  {Filter(NewFilterer(fn), s) : fn \in FilterFns}
  \cup {Map(NewMapper(fn), s) : fn \in MapFns}
  \cup {Slice(s, a, b) : a \in SliceStarts, b \in SliceEnds}
  \cup {TakeWhile(NewFilterer(fn), s) : fn \in FilterFns}
  \cup {DropWhile(NewFilterer(fn), s) : fn \in FilterFns}

\* Concat of two sources, Flatten of a source of two sources
Joins ==
  {Concat(<<s1, Source(q, ce, MaxUp)>>) :
     s1 \in Sources, q \in SeqsUpTo(Outcomes, 1), ce \in {Nil, closeError}}
  \cup {Flatten(SourceOfStreams(<<s1, Source(q, Nil, MaxUp)>>, ce)) :
     s1 \in Sources, q \in SeqsUpTo(Outcomes, 1), ce \in {Nil, closeError}}

\* the Streams the caller may hold: one wrapper over a source, a join, or a
\* wrapper over a wrapper of a source of values
Pipelines ==
  UNION {Wrappers(s) : s \in Sources}
  \cup Joins
  \cup UNION {Wrappers(w) : w \in UNION {Wrappers(s) : s \in ValueSources}}

InitStreams ==
  /\ NoGenerator
  /\ NoMultiConsume
  /\ stream \in Pipelines
  /\ slog = <<>>
  /\ built = <<>>
  /\ NoFilterer

\* the caller calls Next on the Stream it holds
StreamCallNext ==
  /\ stream.kind # "nil"
  /\ Len(slog) < MaxCalls
  /\ LET r == StreamNext(stream)
     IN  /\ stream' = r.s
         /\ slog' = Append(slog, [op |-> "Next", res |-> r.err, val |-> r.val])
  /\ UNCHANGED <<generatorVars, mcVars, built, filtererVars>>

\* the caller calls Close on the Stream it holds
StreamCallClose ==
  /\ stream.kind # "nil"
  /\ Len(slog) < MaxCalls
  /\ LET r == StreamClose(stream)
     IN  /\ stream' = r.s
         /\ slog' = Append(slog, [op |-> "Close", res |-> r.err, val |-> 0])
  /\ UNCHANGED <<generatorVars, mcVars, built, filtererVars>>

NextStreams ==
  \/ StreamCallNext
  \/ StreamCallClose

SpecStreams == InitStreams /\ [][NextStreams]_vars

\* ---------------------------------------------------------------- C19
\* C19: whatever the Filterers and Mappers of a Stream composed from Filter,
\* Map, TakeWhile, DropWhile, Slice, Concat and Flatten return (nil, Skipped
\* or an error), over sources that never return Skipped, no call of Next on
\* the Stream returns Skipped.
C19_NextNeverSkipped ==
  \A k \in 1..Len(slog) : slog[k].op = "Next" => slog[k].res # Skipped

\* a Filter whose Filterer skips the first value and accepts the second has
\* returned the second value from its first Next
C19_Witness ==
  /\ stream.kind = "filter"
  /\ stream.inner.kind = "source"
  /\ stream.filterer.kind = "func"
  /\ stream.filterer.fn[1] = Skipped
  /\ stream.filterer.fn[0] = Nil
  /\ Len(slog) = 1
  /\ slog[1] = [op |-> "Next", res |-> Nil, val |-> 2]
  /\ stream.inner.nexts = 2

\* ---------------------------------------------------------------- C20
\* the caller holds a wrapper with one inner Stream, directly over a source
OneInner ==
  /\ stream.kind \in {"filter", "map", "slice", "take", "drop"}
  /\ stream.inner.kind = "source"

\* the step is a call of Next
IsNextCall == Len(slog') = Len(slog) + 1 /\ slog'[Len(slog')].op = "Next"

\* the wrapper ends before its inner Stream is exhausted: a Slice has no value
\* left to emit below its end and the source has the values up to that end,
\* or the Filterer of a TakeWhile skips the value it reads
EndsBeforeInner ==
  \/ /\ stream.kind = "slice"
     /\ ~stream.done
     /\ stream.end >= 0
     /\ \/ stream.index >= stream.end
        \/ /\ stream.start >= stream.end
           /\ \A k \in 0..(stream.end - stream.index - 1) :
                /\ stream.inner.idx + k <= Len(stream.inner.items)
                /\ stream.inner.items[stream.inner.idx + k].err = Nil
  \/ /\ stream.kind = "take"
     /\ ~stream.fnil
     /\ stream.inner.idx <= Len(stream.inner.items)
     /\ stream.inner.items[stream.inner.idx].err = Nil
     /\ FiltererFilter(stream.f, stream.inner.items[stream.inner.idx].val) = Skipped

\* what a Next that closes the inner Stream returns
CloseOutcomeOrDone ==
  IF stream.inner.closeErr = Nil THEN Done ELSE stream.inner.closeErr

\* C20 as stated: a wrapper with one inner Stream (Filter, Map, Slice,
\* TakeWhile, DropWhile) whose inner Next returns Done closes the inner
\* Stream in that call of Next and returns the Close outcome if it is not
\* nil, Done otherwise.
C20_ClosesInnerOnDone ==
  [][(OneInner /\ IsNextCall /\ stream.inner.dones = 0 /\ stream'.inner.dones = 1)
       => /\ stream'.inner.closes = stream.inner.closes + 1
          /\ slog'[Len(slog')].res = CloseOutcomeOrDone]_vars

\* C20, amended: a wrapper with one inner Stream whose inner Next returns
\* Done returns Done from that call of Next and does not close the inner
\* Stream. A call of Next closes the inner Stream only when the wrapper ends
\* before the inner Stream is exhausted (the window of a Slice has ended, the
\* Filterer of a TakeWhile returns Skipped); that call closes it once, returns
\* the Close outcome if it is not nil and Done otherwise, and every later Next
\* returns Done and leaves the inner Stream alone.
C20_DoneWithoutClose ==
  [][(OneInner /\ IsNextCall)
       => /\ stream'.inner.dones > stream.inner.dones
               => /\ stream'.inner.dones = stream.inner.dones + 1
                  /\ stream'.inner.closes = stream.inner.closes
                  /\ slog'[Len(slog')].res = Done
          /\ stream'.inner.closes > stream.inner.closes <=> EndsBeforeInner
          /\ EndsBeforeInner
               => /\ stream'.inner.closes = stream.inner.closes + 1
                  /\ stream'.inner.dones = stream.inner.dones
                  /\ slog'[Len(slog')].res = CloseOutcomeOrDone
          /\ (stream.kind = "slice" /\ stream.done) \/ (stream.kind = "take" /\ stream.fnil)
               => /\ stream' = stream
                  /\ slog'[Len(slog')].res = Done]_vars

\* a Filter over a source whose Close fails has returned Done from the Next
\* in which the source reported Done, and the source has not been closed
C20_Witness ==
  /\ stream.kind = "filter"
  /\ stream.inner.kind = "source"
  /\ stream.inner.closeErr = closeError
  /\ stream.inner.dones = 1
  /\ stream.inner.closes = 0
  /\ Len(stream.inner.items) = 1
  /\ Len(slog) = 2
  /\ slog[1].res = Nil
  /\ slog[2] = [op |-> "Next", res |-> Done, val |-> 0]

\* ---------------------------------------------------------------- C21
\* in this step a Next of the source, src before the step and src2 after it,
\* returned an error other than Done
ErrRead(src, src2) ==
  \E k \in src.idx..(src2.idx - 1) : src.items[k].err \notin {Nil, Done}

\* the error was the outcome of the last Next made on the source in this
\* step, the call of the caller returned it, and the source was not closed
ErrPassed(src, src2) ==
  /\ \A k \in src.idx..(src2.idx - 2) : src.items[k].err = Nil
  /\ src2.dones = src.dones
  /\ src2.closes = src.closes
  /\ slog'[Len(slog')].res = src.items[src2.idx - 1].err

\* the Stream a flattenStream reads in the call that ends in stream': the
\* current one, or the one the outer Stream emitted last in this step
FlattenRead ==
  IF stream'.stream.idx = stream.stream.idx
    THEN stream.current
    ELSE stream.stream.items[stream'.stream.idx - 1].val

\* C21: when the Next of the inner Stream returns an error other than Done,
\* Filter, Map, Slice, TakeWhile, DropWhile, Concat and Flatten return that
\* error from the current call of Next, call no Next of an inner Stream after
\* it in that call and do not close the inner Stream.
C21_ErrorPassedUnchanged ==
  [][IsNextCall =>
       /\ (OneInner /\ ErrRead(stream.inner, stream'.inner))
            => ErrPassed(stream.inner, stream'.inner)
       /\ stream.kind = "concat" =>
            \A i \in 1..Len(stream.s) :
              ErrRead(stream.s[i], stream'.s[i])
                => /\ ErrPassed(stream.s[i], stream'.s[i])
                   /\ stream'.idx = i
                   /\ \A j \in 1..Len(stream.s) :
                        /\ stream'.s[j].closes = stream.s[j].closes
                        /\ j > i => stream'.s[j] = stream.s[j]
       /\ (stream.kind = "flatten" /\ FlattenRead.kind = "source"
             /\ ErrRead(FlattenRead, stream'.current))
            => /\ ErrPassed(FlattenRead, stream'.current)
               /\ stream'.stream.closes = stream.stream.closes]_vars

\* a Concat of two sources has returned the scan error of its first source
\* from its second Next, and has neither read the second source nor closed
\* any of the two
C21_Witness ==
  /\ stream.kind = "concat"
  /\ stream.idx = 1
  /\ Len(slog) = 2
  /\ slog[1] = [op |-> "Next", res |-> Nil, val |-> 1]
  /\ slog[2] = [op |-> "Next", res |-> scanError, val |-> 0]
  /\ stream.s[1].nexts = 2
  /\ stream.s[1].closes = 0
  /\ stream.s[2].nexts = 0
  /\ Len(stream.s[2].items) = 1
  /\ stream.s[2].closes = 0

\* ---------------------------------------------------------------- C22
\* the caller holds a Slice directly over a source that emits values only,
\* and has so far called Next only
SliceOfValues ==
  /\ stream.kind = "slice"
  /\ stream.inner.kind = "source"
  /\ \A k \in 1..Len(stream.inner.items) : stream.inner.items[k].err = Nil
  /\ \A k \in 1..Len(slog) : slog[k].op = "Next"

\* the number of values of the source below the end of the Slice
SliceHigh ==
  IF stream.end < 0 \/ stream.end > Len(stream.inner.items)
    THEN Len(stream.inner.items)
    ELSE stream.end

\* the number of values the Slice has to emit
SliceCount ==
  IF SliceHigh > stream.start THEN SliceHigh - stream.start ELSE 0

EmptySlice ==
  /\ stream.kind = "slice"
  /\ stream.inner.kind = "source"
  /\ stream.end >= 0
  /\ stream.start >= stream.end
  /\ Len(slog) >= 1
  /\ \A k \in 1..Len(slog) : slog[k].op = "Next"

\* C23 as stated: Slice(s, start, end) with start >= end >= 0 yields no
\* value, and closes s without a call of s.Next.
C23_EmptySliceReadsNothing ==
  EmptySlice =>
    /\ \A k \in 1..Len(slog) : slog[k].res # Nil
    /\ stream.inner.nexts = 0
    /\ stream.inner.closes = 1

\* C23, amended: Slice(s, start, end) with start >= end >= 0 yields no value.
\* Its first Next reads the first end values of s and drops them; if s has
\* them, that Next closes s and returns the Close outcome if it is not nil
\* and Done otherwise, and s is read no more; if s is exhausted before, that
\* Next returns Done and s is not closed. Only with end = 0 is s closed
\* without being read.
C23_EmptySliceReadsUpToEnd ==
  EmptySlice =>
    /\ \A k \in 1..Len(slog) : slog[k].res # Nil
    /\ (\A k \in 1..Len(stream.inner.items) : stream.inner.items[k].err = Nil)
         => /\ \A k \in 2..Len(slog) : slog[k].res = Done
            /\ IF Len(stream.inner.items) >= stream.end
                 THEN /\ stream.inner.nexts = stream.end
                      /\ stream.inner.dones = 0
                      /\ stream.inner.closes = 1
                      /\ slog[1].res = (IF stream.inner.closeErr = Nil
                                          THEN Done ELSE stream.inner.closeErr)
                 ELSE /\ stream.inner.nexts = Len(stream.inner.items) + 1
                      /\ stream.inner.dones = 1
                      /\ stream.inner.closes = 0
                      /\ slog[1].res = Done

\* Slice(s, 1, 1) over a source of two values has read one value of s in its
\* first Next, closed s and returned Done
C23_Witness ==
  /\ EmptySlice
  /\ stream.start = 1
  /\ stream.end = 1
  /\ Len(stream.inner.items) = 2
  /\ stream.inner.items[1].err = Nil
  /\ Len(slog) = 1
  /\ slog[1].res = Done
  /\ stream.inner.nexts = 1
  /\ stream.inner.closes = 1

\* ---------------------------------------------------------------- C24
\* the caller holds Slice(s, start, end) with 0 <= start < end directly over a
\* source that has end values or more, and has called Next only
SliceEndsFirst ==
  /\ SliceOfValues
  /\ stream.end >= 0
  /\ stream.start < stream.end
  /\ Len(stream.inner.items) >= stream.end

\* C24: when the window of Slice(s, start, end) ends before s is exhausted,
\* the Next that follows the last emitted value closes s and returns the
\* Close outcome of s if it is not nil and Done otherwise; every later Next
\* returns Done, and s is neither read nor closed again.
C24_SliceWindowEndCloses ==
  SliceEndsFirst =>
    LET last == stream.end - stream.start
    IN  /\ \A k \in 1..Len(slog) :
             /\ k = last + 1 =>
                  slog[k].res = (IF stream.inner.closeErr = Nil
                                   THEN Done ELSE stream.inner.closeErr)
             /\ k > last + 1 => slog[k].res = Done
        /\ stream.inner.closes = (IF Len(slog) > last THEN 1 ELSE 0)
        /\ stream.inner.nexts <= stream.end
        /\ stream.inner.dones = 0

\* Slice(s, 0, 1) over a source of two values whose Close fails has emitted
\* one value, returned the Close error from its second Next and Done from
\* its third
C24_Witness ==
  /\ SliceEndsFirst
  /\ stream.start = 0
  /\ stream.end = 1
  /\ Len(stream.inner.items) = 2
  /\ stream.inner.closeErr = closeError
  /\ Len(slog) = 3
  /\ slog[1].res = Nil
  /\ slog[2].res = closeError
  /\ slog[3].res = Done
  /\ stream.inner.closes = 1
  /\ stream.inner.nexts = 1

\* ---------------------------------------------------------------- C25
\* the caller has drained Slice(s, start, end), 0 <= start < end, held
\* directly over a source of values: some Next has reported Done
DrainedSlice ==
  /\ SliceOfValues
  /\ stream.start < stream.end
  /\ \E k \in 1..Len(slog) : slog[k].res = Done

\* the caller has drained a Slice of a Slice of a source of values, both
\* with 0 <= start < end
DrainedNestedSlice ==
  /\ stream.kind = "slice"
  /\ stream.inner.kind = "slice"
  /\ stream.inner.inner.kind = "source"
  /\ stream.start < stream.end
  /\ stream.inner.start < stream.inner.end
  /\ \A k \in 1..Len(slog) : slog[k].op = "Next"
  /\ \E k \in 1..Len(slog) : slog[k].res = Done

\* C25 as stated: draining Slice(s, start, end) with 0 <= start < end makes
\* at most end calls of s.Next and closes the source exactly once.
C25_DrainedSliceClosesOnce ==
  /\ DrainedSlice =>
       /\ stream.inner.nexts <= stream.end
       /\ stream.inner.closes = 1
  /\ DrainedNestedSlice => stream.inner.inner.closes = 1

\* C25, amended: draining Slice(s, start, end) with 0 <= start < end makes at
\* most end calls of s.Next; if s has end values it makes exactly end calls
\* and then closes s, once; if s is exhausted earlier it reads s up to its
\* Done and does not close s. Later calls of Next touch s no more. A Slice of
\* a Slice of a source with enough values closes the source once.
C25_DrainedSliceClosesAtMostOnce ==
  /\ DrainedSlice =>
       IF Len(stream.inner.items) >= stream.end
         THEN /\ stream.inner.nexts = stream.end
              /\ stream.inner.dones = 0
              /\ stream.inner.closes = 1
         ELSE /\ stream.inner.nexts = Len(stream.inner.items) + 1
              /\ stream.inner.nexts <= stream.end
              /\ stream.inner.dones = 1
              /\ stream.inner.closes = 0
  /\ (DrainedNestedSlice
        /\ Len(stream.inner.inner.items) >= stream.inner.end)
       => /\ stream.inner.inner.closes = 1
          /\ stream.inner.inner.nexts <= stream.inner.end
          /\ stream.inner.inner.dones = 0

\* Slice(s, 0, 2) over a source of one value has emitted the value and then
\* Done twice; s has been read twice and has not been closed
C25_Witness ==
  /\ DrainedSlice
  /\ stream.start = 0
  /\ stream.end = 2
  /\ Len(stream.inner.items) = 1
  /\ Len(slog) = 3
  /\ slog[1].res = Nil
  /\ slog[2].res = Done
  /\ slog[3].res = Done
  /\ stream.inner.nexts = 2
  /\ stream.inner.closes = 0

\* ------------------------------------------- Filter over Filter, Map over Map
\* The caller holds a source of values, wraps it in Filters or in Maps and
\* then calls Next and Close on what it has built (verifyAllWithFilterer,
\* verifyAllWithMapper, functional_test.go:1080-1102).
InitBuild ==
  /\ NoGenerator
  /\ NoMultiConsume
  /\ stream \in ValueSources
  /\ slog = <<>>
  /\ built = <<>>
  /\ NoFilterer

\* stream = Filter(NewFilterer(fn), stream)
BuildFilter ==
  /\ slog = <<>>
  /\ Len(built) < MaxWraps
  /\ stream.kind \in {"source", "filter"}
  /\ \E fn \in FilterFns :
       /\ stream' = Filter(NewFilterer(fn), stream)
       /\ built' = Append(built, [op |-> "Filter", fn |-> fn])
  /\ UNCHANGED <<generatorVars, mcVars, slog, filtererVars>>

\* stream = Map(NewMapper(fn), stream, ptr)
BuildMap ==
  /\ slog = <<>>
  /\ Len(built) < MaxWraps
  /\ stream.kind \in {"source", "map"}
  /\ \E fn \in MapFns :
       /\ stream' = Map(NewMapper(fn), stream)
       /\ built' = Append(built, [op |-> "Map", fn |-> fn])
  /\ UNCHANGED <<generatorVars, mcVars, slog, filtererVars>>

\* stream = Concat() or stream = Concat(stream) (TestConcatEmpty,
\* TestConcatSingle, functional_test.go:426-438)
BuildConcat ==
  /\ slog = <<>>
  /\ built = <<>>
  /\ stream.kind = "source"
  /\ \E args \in {<<>>, <<stream>>} :
       /\ stream' = Concat(args)
       /\ built' = <<[op |-> "Concat", args |-> args]>>
  /\ UNCHANGED <<generatorVars, mcVars, slog, filtererVars>>

NextBuild ==
  \/ BuildFilter
  \/ BuildMap
  \/ BuildConcat
  \/ StreamCallNext
  \/ StreamCallClose

SpecBuild == InitBuild /\ [][NextBuild]_vars

\* ---------------------------------------------------------------- C26
\* what the functions of built return for the value v, taken one after the
\* other in the order of built: the first outcome that is not nil, nil if
\* there is none
BuiltOutcome(v) ==
  LET bad == {k \in 1..Len(built) : built[k].fn[v % 2] # Nil}
  IN  IF bad = {} THEN Nil
      ELSE built[CHOOSE k \in bad : \A j \in bad : k <= j].fn[v % 2]

\* the source under the wrappers of built
BuiltSource == stream.inner

\* the places of the values of the source that are not skipped
BuiltVisible ==
  SelectSeq([k \in 1..Len(BuiltSource.items) |-> k],
            LAMBDA k : BuiltOutcome(BuiltSource.items[k].val) # Skipped)

\* the caller has wrapped a source in two Filters or more
FiltersBuilt ==
  /\ Len(built) >= 2
  /\ \A k \in 1..Len(built) : built[k].op = "Filter"

\* C26: Filter(f2, Filter(f1, s)) is one filter wrapper directly over s whose
\* Filterer is the flat list [f1, f2], and [f1, f2, f3] after one more Filter;
\* its Next returns what f1 returns for each value of s, and what f2 returns
\* where f1 returned nil: values for which this is Skipped are left out,
\* errors are returned by Next, the other values are emitted.
C26_FilterFusion ==
  FiltersBuilt =>
    /\ stream.kind = "filter"
    /\ stream.inner.kind = "source"
    /\ stream.filterer =
         [kind |-> "and",
          fs |-> [k \in 1..Len(built) |-> [kind |-> "func", fn |-> built[k].fn]]]
    /\ \A fn \in FilterFns :
         Filter(NewFilterer(fn), stream) =
           [kind |-> "filter", inner |-> stream.inner,
            filterer |-> [kind |-> "and",
                          fs |-> Append(stream.filterer.fs, [kind |-> "func", fn |-> fn])]]
    /\ (\A j \in 1..Len(slog) : slog[j].op = "Next") =>
         \A j \in 1..Len(slog) :
           IF j <= Len(BuiltVisible)
             THEN LET v == BuiltSource.items[BuiltVisible[j]].val
                  IN  /\ slog[j].res = BuiltOutcome(v)
                      /\ slog[j].res = Nil => slog[j].val = v
             ELSE slog[j].res = Done

\* f1 skips odd values and f2 fails on every value: the first Next of
\* Filter(f2, Filter(f1, s)) over the values 1, 2 has left 1 out without the
\* error of f2 and returned the error of f2 for 2
C26_Witness ==
  /\ FiltersBuilt
  /\ Len(built) = 2
  /\ built[1].fn = [x \in Parities |-> IF x = 1 THEN Skipped ELSE Nil]
  /\ built[2].fn = [x \in Parities |-> filterError]
  /\ Len(slog) = 1
  /\ slog[1] = [op |-> "Next", res |-> filterError, val |-> 0]
  /\ stream.inner.nexts = 2

\* ---------------------------------------------------------------- C27
\* the value v after n Mappers that return nil
RECURSIVE MappedTimes(_, _)
MappedTimes(v, n) == IF n = 0 THEN v ELSE MappedValue(MappedTimes(v, n - 1))

\* what the Mappers of built return for the value v of the source, each one
\* being given what the one before it has stored: the first outcome that is
\* not nil, nil if there is none
MapBuiltOutcome(v) ==
  LET bad == {k \in 1..Len(built) : built[k].fn[MappedTimes(v, k - 1) % 2] # Nil}
  IN  IF bad = {} THEN Nil
      ELSE LET k == CHOOSE k \in bad : \A j \in bad : k <= j
           IN  built[k].fn[MappedTimes(v, k - 1) % 2]

\* the places of the values of the source that are not skipped
MapBuiltVisible ==
  SelectSeq([k \in 1..Len(BuiltSource.items) |-> k],
            LAMBDA k : MapBuiltOutcome(BuiltSource.items[k].val) # Skipped)

\* the caller has wrapped a source in two Maps or more
MapsBuilt ==
  /\ Len(built) >= 2
  /\ \A k \in 1..Len(built) : built[k].op = "Map"

\* C27: Map(g, Map(f, s, tmp), dst) is one map wrapper directly over s whose
\* Mapper is one fastCompositeMapper of f and then g; for each value of s, g
\* is given what f has stored and is not called when f returns Skipped or an
\* error; a value for which f or g returns Skipped is left out, an error of
\* f or g is returned by Next, and the other values are emitted as g stores
\* them.
C27_MapFusion ==
  MapsBuilt =>
    /\ stream.kind = "map"
    /\ stream.inner.kind = "source"
    /\ stream.mapper =
         [kind |-> "fast",
          pieces |-> [k \in 1..Len(built) |-> [kind |-> "func", fn |-> built[k].fn]]]
    /\ (\A j \in 1..Len(slog) : slog[j].op = "Next") =>
         \A j \in 1..Len(slog) :
           IF j <= Len(MapBuiltVisible)
             THEN LET v == BuiltSource.items[MapBuiltVisible[j]].val
                  IN  /\ slog[j].res = MapBuiltOutcome(v)
                      /\ slog[j].res = Nil => slog[j].val = MappedTimes(v, Len(built))
             ELSE slog[j].res = Done

\* f skips odd values and g fails on odd values: the first Next of
\* Map(g, Map(f, s)) over the values 1, 2 has left 1 out without the error
\* of g, and has returned the error of g for 2, which f has made odd
C27_Witness ==
  /\ MapsBuilt
  /\ Len(built) = 2
  /\ built[1].fn = [x \in Parities |-> IF x = 1 THEN Skipped ELSE Nil]
  /\ built[2].fn = [x \in Parities |-> IF x = 1 THEN mapError ELSE Nil]
  /\ Len(slog) = 1
  /\ slog[1] = [op |-> "Next", res |-> mapError, val |-> 0]
  /\ stream.inner.nexts = 2

\* --------------------------------------------------------- Any and All
\* the funcFilterers of the tests, and the two of them that never fail
\* (includeFilterer, skipFilterer, functional_test.go:21-22)
Leaves == {NewFilterer(fn) : fn \in FilterFns}
PlainLeaves ==
  {NewFilterer([x \in Parities |-> o]) : o \in {Nil, Skipped}}

\* what the tests give to Any and All (TestAny, TestAll, TestAllAnyComposition,
\* TestAnyAllComposition, functional_test.go:738-812): funcFilterers, or
\* funcFilterers and results of Any and All of up to two funcFilterers
ArgLists ==
  SeqsUpTo(Leaves, MaxArgs)
  \cup SeqsUpTo(PlainLeaves
                  \cup {AnyOf(q) : q \in SeqsUpTo(PlainLeaves, 2)}
                  \cup {All(q) : q \in SeqsUpTo(PlainLeaves, 2)},
                MaxArgs)

InitFilterers ==
  /\ NoGenerator
  /\ NoMultiConsume
  /\ stream = [kind |-> "nil"] /\ slog = <<>> /\ built = <<>>
  /\ fargs \in ArgLists
  /\ filterer = [made |-> "none"]
  /\ flog = <<>>

\* filterer = Any(fargs...)
CallAny ==
  /\ filterer.made = "none"
  /\ filterer' = [made |-> "Any", f |-> AnyOf(fargs)]
  /\ UNCHANGED <<generatorVars, mcVars, stream, slog, built, fargs, flog>>

\* filterer = All(fargs...)
CallAll ==
  /\ filterer.made = "none"
  /\ filterer' = [made |-> "All", f |-> All(fargs)]
  /\ UNCHANGED <<generatorVars, mcVars, stream, slog, built, fargs, flog>>

\* filterer.Filter(ptr), ptr pointing to the value 1 or 2
CallFilter ==
  /\ filterer.made # "none"
  /\ flog = <<>>
  /\ \E v \in {1, 2} :
       flog' = <<[v |-> v, res |-> FiltererFilter(filterer.f, v),
                  calls |-> FilterCalls(filterer.f, v)]>>
  /\ UNCHANGED <<generatorVars, mcVars, stream, slog, built, fargs, filterer>>

NextFilterers ==
  \/ CallAny
  \/ CallAll
  \/ CallFilter

SpecFilterers == InitFilterers /\ [][NextFilterers]_vars

\* ---------------------------------------------------------------- C28
\* the arguments of Any or All are funcFilterers, and Filter has been called
FlatCall ==
  /\ \A i \in 1..Len(fargs) : fargs[i].kind = "func"
  /\ flog # <<>>

\* the places of the arguments whose outcome for the value v is not o
NotOutcome(o, v) == {i \in 1..Len(fargs) : fargs[i].fn[v % 2] # o}

\* the outcome and the calls of Filter are those of a run through fargs that
\* stops at the first outcome other than o, and returns o if there is none
FirstNot(o) ==
  LET e == flog[1]
      S == NotOutcome(o, e.v)
  IN  IF S = {}
        THEN e.res = o /\ e.calls = fargs
        ELSE LET m == CHOOSE i \in S : \A j \in S : i <= j
             IN  /\ e.res = fargs[m].fn[e.v % 2]
                 /\ e.calls = SubSeq(fargs, 1, m)

\* C28: Any(f1..fn).Filter returns the outcome of the first fi whose outcome
\* is not Skipped and calls no later fi, and returns Skipped if all return
\* Skipped; All(f1..fn).Filter returns the outcome of the first fi whose
\* outcome is not nil and calls no later fi, and returns nil if all return
\* nil; Any() returns Skipped and All() returns nil.
C28_AnyAllShortCircuit ==
  FlatCall =>
    /\ filterer.made = "Any" => FirstNot(Skipped)
    /\ filterer.made = "All" => FirstNot(Nil)
    /\ (filterer.made = "Any" /\ fargs = <<>>) => flog[1].res = Skipped
    /\ (filterer.made = "All" /\ fargs = <<>>) => flog[1].res = Nil

\* Any of a Filterer that skips, one that fails and one that accepts has
\* returned the error after two calls
C28_Witness ==
  /\ FlatCall
  /\ filterer.made = "Any"
  /\ Len(fargs) = 3
  /\ fargs[1].fn = [x \in Parities |-> Skipped]
  /\ fargs[2].fn = [x \in Parities |-> filterError]
  /\ fargs[3].fn = [x \in Parities |-> Nil]
  /\ flog[1].res = filterError
  /\ Len(flog[1].calls) = 2

\* ---------------------------------------------------------------- C29
\* the number of Filterers that the argument a brings into a list of the
\* given kind: its own Filterers if it is of that kind, itself otherwise
Brings(a, kind) == IF a.kind = kind THEN Len(a.fs) ELSE 1

\* the number of Filterers that the first i arguments bring
RECURSIVE BroughtBy(_, _)
BroughtBy(i, kind) ==
  IF i = 0 THEN 0 ELSE BroughtBy(i - 1, kind) + Brings(fargs[i], kind)

\* the list fs holds, argument after argument, the Filterers of each argument
\* of the given kind and every other argument as one element
FlatList(fs, kind) ==
  /\ Len(fs) = BroughtBy(Len(fargs), kind)
  /\ \A i \in 1..Len(fargs) :
       \A j \in 1..Brings(fargs[i], kind) :
         fs[BroughtBy(i - 1, kind) + j] =
           (IF fargs[i].kind = kind THEN fargs[i].fs[j] ELSE fargs[i])

\* C29: Any of arguments that are results of Any is one flat list of their
\* Filterers, in order, and likewise All of results of All; a result of All
\* given to Any, or of Any given to All, stays one element of the list.
C29_AnyAllFlatten ==
  /\ filterer.made = "Any" =>
       /\ filterer.f.kind = "or"
       /\ FlatList(filterer.f.fs, "or")
       /\ \A k \in 1..Len(filterer.f.fs) : filterer.f.fs[k].kind # "or"
  /\ filterer.made = "All" =>
       /\ filterer.f.kind = "and"
       /\ FlatList(filterer.f.fs, "and")
       /\ \A k \in 1..Len(filterer.f.fs) : filterer.f.fs[k].kind # "and"

\* Any(Any(a, b), All(a, b), Any()) holds a, b and the result of All
C29_Witness ==
  /\ filterer.made = "Any"
  /\ Len(fargs) = 3
  /\ fargs[1].kind = "or" /\ Len(fargs[1].fs) = 2
  /\ fargs[1].fs[1] # fargs[1].fs[2]
  /\ fargs[2].kind = "and" /\ Len(fargs[2].fs) = 2
  /\ fargs[3].kind = "or" /\ Len(fargs[3].fs) = 0
  /\ filterer.f.fs = <<fargs[1].fs[1], fargs[1].fs[2], fargs[2]>>

\* ---------------------------------------------------------------- C30
\* C30: Any(f) and All(f), called with the one Filterer f, return f itself
\* with no Filterer wrapped around it.
C30_SingleArgumentReturned ==
  (filterer.made # "none" /\ Len(fargs) = 1) => filterer.f = fargs[1]

\* ---------------------------------------------------------------- C31
\* the number of calls of Close the caller has made
ClosesCalled == Cardinality({k \in 1..Len(slog) : slog[k].op = "Close"})

\* the caller holds a Concat of sources that emit values only, and has
\* called Next only
ConcatOfValues ==
  /\ stream.kind = "concat"
  /\ \A i \in 1..Len(stream.s) :
       \A k \in 1..Len(stream.s[i].items) : stream.s[i].items[k].err = Nil
  /\ \A k \in 1..Len(slog) : slog[k].op = "Next"

\* the values of the Streams of a Concat, one Stream after the other
RECURSIVE ConcatValues(_)
ConcatValues(i) ==
  IF i = 0 THEN <<>>
  ELSE ConcatValues(i - 1)
         \o [k \in 1..Len(stream.s[i].items) |-> stream.s[i].items[k].val]

\* the first Close outcome of the Streams of a Concat that is not nil
FirstCloseErr ==
  LET bad == {i \in 1..Len(stream.s) : stream.s[i].closeErr # Nil}
  IN  IF bad = {} THEN Nil
      ELSE stream.s[CHOOSE i \in bad : \A j \in bad : i <= j].closeErr

\* C31: Concat(s1..sn) emits the values of s1, then those of s2 and so on,
\* goes past every Stream that reports Done and reports Done only after the
\* last one; its Close calls Close on every one of the Streams, read or not,
\* exhausted or not, and returns the first outcome that is not nil.
C31_ConcatInOrder ==
  stream.kind = "concat" =>
    /\ ConcatOfValues =>
         \A j \in 1..Len(slog) :
           IF j <= Len(ConcatValues(Len(stream.s)))
             THEN /\ slog[j].res = Nil
                  /\ slog[j].val = ConcatValues(Len(stream.s))[j]
             ELSE slog[j].res = Done
    /\ \A i \in 1..Len(stream.s) : stream.s[i].closes = ClosesCalled
    /\ \A k \in 1..Len(slog) :
         slog[k].op = "Close" => slog[k].res = FirstCloseErr

\* a Concat of two sources of one value each has emitted both values and
\* then Done; its Close has closed both sources and returned the error of
\* the second
C31_Witness ==
  /\ stream.kind = "concat"
  /\ Len(stream.s[1].items) = 1
  /\ Len(stream.s[2].items) = 1
  /\ stream.s[1].closeErr = Nil
  /\ stream.s[2].closeErr = closeError
  /\ Len(slog) = 4
  /\ slog[1] = [op |-> "Next", res |-> Nil, val |-> 1]
  /\ slog[2] = [op |-> "Next", res |-> Nil, val |-> MaxUp + 1]
  /\ slog[3] = [op |-> "Next", res |-> Done, val |-> 0]
  /\ slog[4] = [op |-> "Close", res |-> closeError, val |-> 0]
  /\ stream.s[1].closes = 1
  /\ stream.s[2].closes = 1

\* ---------------------------------------------------------------- C32
\* C32: Concat() returns the Stream that NilStream() returns, and Concat(s)
\* returns s itself with nothing wrapped around it.
C32_ConcatOfFewReturnsArgument ==
  (Len(built) = 1 /\ built[1].op = "Concat" /\ slog = <<>>) =>
    stream = (IF built[1].args = <<>> THEN NilStream ELSE built[1].args[1])

\* ---------------------------------------------------------------- C33
\* the caller holds a Flatten of a source of sources that emit values only,
\* and has called Next only
FlattenOfValues ==
  /\ stream.kind = "flatten"
  /\ \A i \in 1..Len(stream.stream.items) :
       \A k \in 1..Len(stream.stream.items[i].val.items) :
         stream.stream.items[i].val.items[k].err = Nil
  /\ \A k \in 1..Len(slog) : slog[k].op = "Next"

\* the values of the first i Streams that the outer Stream emits
RECURSIVE FlattenValues(_)
FlattenValues(i) ==
  IF i = 0 THEN <<>>
  ELSE FlattenValues(i - 1)
         \o [k \in 1..Len(stream.stream.items[i].val.items) |->
               stream.stream.items[i].val.items[k].val]

\* the step is a call of Close
IsCloseCall == Len(slog') = Len(slog) + 1 /\ slog'[Len(slog')].op = "Close"

\* the Close outcome of the current Stream of a flattenStream
CurrentCloseErr ==
  IF stream.current.kind = "source" THEN stream.current.closeErr ELSE Nil

\* C33: Flatten(s) starts with an empty current Stream, emits the values of
\* the Streams that s emits, one Stream after the other and passing over the
\* empty ones, and reports Done when s does; its Close closes the current
\* Stream and s, s also when the Close of the current Stream fails, and
\* returns the first of the two outcomes that is not nil.
C33_FlattenInOrder ==
  /\ [](stream.kind = "flatten" =>
          /\ slog = <<>> => stream.current = NilStream
          /\ FlattenOfValues =>
               \A j \in 1..Len(slog) :
                 IF j <= Len(FlattenValues(Len(stream.stream.items)))
                   THEN /\ slog[j].res = Nil
                        /\ slog[j].val = FlattenValues(Len(stream.stream.items))[j]
                   ELSE slog[j].res = Done
          /\ stream.stream.closes = ClosesCalled)
  /\ [][(stream.kind = "flatten" /\ IsCloseCall) =>
          /\ stream'.stream.closes = stream.stream.closes + 1
          /\ stream.current.kind = "source" =>
               stream'.current.closes = stream.current.closes + 1
          /\ slog'[Len(slog')].res =
               (IF CurrentCloseErr # Nil THEN CurrentCloseErr
                                         ELSE stream.stream.closeErr)]_vars

\* a Flatten has emitted the value of its first inner Stream; its Close has
\* closed that Stream, whose Close fails, and the outer Stream all the same,
\* and has returned the error
C33_Witness ==
  /\ stream.kind = "flatten"
  /\ Len(slog) = 2
  /\ slog[1] = [op |-> "Next", res |-> Nil, val |-> 1]
  /\ slog[2] = [op |-> "Close", res |-> closeError, val |-> 0]
  /\ stream.current.kind = "source"
  /\ stream.current.closeErr = closeError
  /\ stream.current.closes = 1
  /\ stream.stream.closeErr = Nil
  /\ stream.stream.closes = 1

\* ---------------------------------------------------------------- C34
\* the caller holds a TakeWhile over a source
TakeOfSource == stream.kind = "take" /\ stream.inner.kind = "source"

\* the number of Next calls among the first j calls of the caller
NextsUpTo(j) == Cardinality({k \in 1..j : slog[k].op = "Next"})

\* the outcome of the Filterer of the Stream for the i-th item of its source
FilterOfItem(i) == FiltererFilter(stream.f, stream.inner.items[i].val)

\* the i-th item of the source is a value
IsValueItem(i) == stream.inner.items[i].err = Nil

\* the first item of the source that is a value for which the Filterer
\* returns Skipped; one past the last item when there is none
FirstSkipped ==
  LET S == {i \in 1..Len(stream.inner.items) :
              IsValueItem(i) /\ FilterOfItem(i) = Skipped}
  IN  IF S = {} THEN Len(stream.inner.items) + 1
      ELSE CHOOSE i \in S : \A m \in S : i <= m

\* the n-th Next of the TakeWhile reads the value on which its Filterer
\* returns Skipped
TakeCutAt(n) == n = FirstSkipped /\ n <= Len(stream.inner.items)

\* C34: TakeWhile(f, s) emits the values of s for which f returns Ok; the
\* Next that reads the first value on which f returns Skipped closes s and
\* returns Done, or the outcome of that Close when it is not nil, and every
\* later Next returns Done and calls neither s nor f; an error of f other
\* than Skipped is returned by that Next, s is not closed and the next call
\* goes on with the next value.
C34_TakeWhile ==
  TakeOfSource =>
    /\ \A j \in 1..Len(slog) :
         slog[j].op = "Next" =>
           LET n == NextsUpTo(j)
           IN  IF n > FirstSkipped \/ n > Len(stream.inner.items)
                 THEN slog[j].res = Done
               ELSE IF TakeCutAt(n)
                 THEN slog[j].res = (IF stream.inner.closeErr # Nil
                                       THEN stream.inner.closeErr ELSE Done)
               ELSE IF ~IsValueItem(n)
                 THEN slog[j].res = stream.inner.items[n].err
               ELSE /\ slog[j].res = FilterOfItem(n)
                    /\ slog[j].res = Nil => slog[j].val = stream.inner.items[n].val
    /\ stream.inner.nexts =
         (IF NextsUpTo(Len(slog)) < FirstSkipped
            THEN NextsUpTo(Len(slog)) ELSE FirstSkipped)
    /\ stream.fcalls =
         Cardinality({i \in 1..Len(stream.inner.items) :
                        /\ IsValueItem(i)
                        /\ i <= NextsUpTo(Len(slog))
                        /\ i <= FirstSkipped})
    /\ stream.inner.closes =
         ClosesCalled + (IF TakeCutAt(FirstSkipped)
                            /\ NextsUpTo(Len(slog)) >= FirstSkipped
                           THEN 1 ELSE 0)

\* a TakeWhile has returned an error of its Filterer without closing its
\* source, then has read the value on which the Filterer returns Skipped,
\* closed the source and returned Done, and has returned Done again without
\* reading
C34_Witness ==
  /\ TakeOfSource
  /\ Len(slog) = 3
  /\ slog[1] = [op |-> "Next", res |-> filterError, val |-> 0]
  /\ slog[2] = [op |-> "Next", res |-> Done, val |-> 0]
  /\ slog[3] = [op |-> "Next", res |-> Done, val |-> 0]
  /\ stream.inner.nexts = 2
  /\ stream.inner.closes = 1
  /\ stream.fcalls = 2

\* ---------------------------------------------------------------- C35
\* the caller holds a DropWhile over a source
DropOfSource == stream.kind = "drop" /\ stream.inner.kind = "source"

\* the items of the source on which a Next of the DropWhile returns: before
\* the first value on which the Filterer returns Skipped, the errors of the
\* source and the values on which the Filterer fails; from that value on,
\* every item
DropStops ==
  {i \in 1..Len(stream.inner.items) :
     \/ i >= FirstSkipped
     \/ ~IsValueItem(i)
     \/ FilterOfItem(i) # Nil}

\* the n-th of these items
NthDropStop(n) ==
  CHOOSE i \in DropStops : Cardinality({m \in DropStops : m <= i}) = n

\* C35: DropWhile(f, s) discards the values of s for which f returns Ok and
\* returns from Next any error of f other than Skipped; the first value on
\* which f returns Skipped is emitted, every later outcome of s is returned
\* as it is, and f is not called after that value.
C35_DropWhile ==
  DropOfSource =>
    /\ \A j \in 1..Len(slog) :
         slog[j].op = "Next" =>
           LET n == NextsUpTo(j)
           IN  IF n > Cardinality(DropStops) THEN slog[j].res = Done
               ELSE LET i == NthDropStop(n)
                    IN  IF ~IsValueItem(i)
                          THEN slog[j].res = stream.inner.items[i].err
                        ELSE IF i < FirstSkipped
                          THEN slog[j].res = FilterOfItem(i)
                        ELSE /\ slog[j].res = Nil
                             /\ slog[j].val = stream.inner.items[i].val
    /\ stream.fcalls =
         Cardinality({i \in 1..Len(stream.inner.items) :
                        /\ IsValueItem(i)
                        /\ i < stream.inner.idx
                        /\ i <= FirstSkipped})
    /\ stream.inner.closes = ClosesCalled

\* a DropWhile has emitted the first value of its source, on which its
\* Filterer returns Skipped, and then the second value, on which the
\* Filterer would fail, with one call of the Filterer in all
C35_Witness ==
  /\ DropOfSource
  /\ FirstSkipped = 1
  /\ Len(stream.inner.items) = 2
  /\ IsValueItem(2)
  /\ FilterOfItem(2) = filterError
  /\ Len(slog) = 2
  /\ slog[1] = [op |-> "Next", res |-> Nil, val |-> 1]
  /\ slog[2] = [op |-> "Next", res |-> Nil, val |-> 2]
  /\ stream.fcalls = 1

(***************************************************************************)
(* The generator under fair scheduling                                     *)
(***************************************************************************)
\* the worker goroutine (generators.go:47-55), its channel operations
\* included
WorkerStep ==
  \/ EmittingFunction
  \/ StartEmitter
  \/ ReturnSend
  \/ ReturnRecv
  \/ EndEmitterDone
  \/ EndEmitterErr

\* the caller's thread inside a call of Next or Close
CallerStep ==
  \/ SliceNext
  \/ RegularGeneratorNext
  \/ RegularGeneratorClose
  \/ ReturnToCaller

\* Go runs every goroutine that can take a step; the caller is free to make
\* no further call.
FairSpec == Spec /\ WF_vars(WorkerStep) /\ WF_vars(CallerStep)

\* ---------------------------------------------------------------- C36
\* C36: every call of Next and of Close on a generator returns, whatever
\* the interleaving of the caller and the worker goroutine, also when Close
\* is the first call and when the emitting function ends by itself.
C36_CallsReturn == (cpc # "idle") ~> (cpc = "idle")

\* Close was the first call on a generator whose emitting function returns
\* when EmitPtr() is nil: it has returned after the three channel operations
\* of the handshake, the emitting function has ended and the worker is over
C36_Witness ==
  /\ ~wrapped
  /\ obeys
  /\ script # <<>>
  /\ Len(calls) = 1
  /\ calls[1].op = "Close"
  /\ calls[1].ops = 3
  /\ calls[1].fin = 1
  /\ cpc = "idle"
  /\ ppc = "exit"

(***************************************************************************)
(* The channels of a generator and of MultiConsume                         *)
(***************************************************************************)
\* either a generator with its caller, or a call of MultiConsume
InitChannels == Init \/ InitMC

NextChannels == Next \/ NextMC

SpecChannels == InitChannels /\ [][NextChannels]_vars

\* ---------------------------------------------------------------- C37
\* the caller of a generator is at a send or a receive
CallerAtChannel == cpc \in {"sendPtr", "recvErr", "recvCloseResult"}

\* the worker goroutine of a generator is at a send or a receive
WorkerAtChannel ==
  ppc \in {"startEmitter", "returnSend", "returnRecv", "endEmitterDone",
           "endEmitterErr"}

\* C37: the channels of a generator and of each private stream of
\* MultiConsume are closed once at most, by the driving side, in the step
\* that takes the last send of the goroutine at the other end; nobody is at
\* a send or a receive on closed channels: a call on a closed generator
\* returns without a channel operation, and asyncReturn and the copy loop
\* of MultiConsume pass over the streams that are closed.
C37_ChannelsClosedOnce ==
  /\ [](chClosed => ~CallerAtChannel /\ ~WorkerAtChannel)
  /\ [](\A k \in 2..Len(calls) : calls[k - 1].closed => calls[k].ops = 0)
  /\ [](\A i \in 1..nConsumers : streams[i].closed => gpc[i] = "exit")
  /\ [](epc \in {"asyncSend", "asyncRecv"} => ~streams[ei].closed)
  /\ [][/\ chClosed => chClosed' /\ chanOps' \in {chanOps, 0}
        /\ (~chClosed /\ chClosed') =>
             /\ cpc = "recvCloseResult"
             /\ ppc = "endEmitterErr" /\ ppc' = "exit"
        /\ \A i \in 1..nConsumers :
             /\ streams[i].closed => streams'[i].closed /\ gmem'[i] = gmem[i]
             /\ (~streams[i].closed /\ streams'[i].closed) =>
                  /\ epc = "asyncRecv" /\ ei = i
                  /\ gpc[i] = "endStream" /\ gpc'[i] = "exit"]_vars

\* a Next has closed the generator after five channel operations, and the
\* Next and the Close that followed have returned without any
C37_Witness ==
  /\ chClosed
  /\ ppc = "exit"
  /\ Len(calls) = 3
  /\ calls[1].op = "Next" /\ calls[1].closed
  /\ calls[2].op = "Next" /\ calls[2].res = Done /\ calls[2].ops = 0
  /\ calls[3].op = "Close" /\ calls[3].ops = 0

\* ---------------------------------------------------------------- C38
\* the calls of Next that the i-th Consumer has made on its private stream,
\* the one in progress included
NextsMade(i) ==
  Len(got[i]) + (IF gpc[i] \in {"sendPtr", "recvErr", "nextReturned"} THEN 1 ELSE 0)

\* the largest number of calls of Next made by one Consumer
MostNextsMade ==
  IF nConsumers = 0 THEN 0
  ELSE CHOOSE n \in 0..(MaxNexts + 1) :
         /\ \E i \in 1..nConsumers : NextsMade(i) = n
         /\ \A i \in 1..nConsumers : NextsMade(i) <= n

\* C38: MultiConsume calls Next on the upstream once in each round, and only
\* when a Consumer is waiting for that value: the upstream never has more
\* calls of Next than the Consumer that has made the most calls of Next on
\* its private stream, and has exactly as many when MultiConsume returns,
\* none when no Consumer has called Next.
C38_NeverReadsAhead ==
  /\ [](Len(UpNexts) <= MostNextsMade)
  /\ [](epc = "done" => Len(UpNexts) = MostNextsMade)
  /\ [][/\ epc = "next" => Len(UpNexts') = Len(UpNexts) + 1
        /\ Len(UpNexts') # Len(UpNexts) =>
             /\ epc = "next"
             /\ Len(UpNexts') = Len(UpNexts) + 1
             /\ \E i \in 1..nConsumers :
                  gpc[i] = "recvErr" /\ NextsMade(i) = Len(UpNexts')]_vars

\* MultiConsume has returned; one Consumer has called Next once, the other
\* twice, and the upstream has had two calls of Next
C38_Witness ==
  /\ epc = "done"
  /\ nConsumers = 2
  /\ Len(got[1]) = 1
  /\ Len(got[2]) = 2
  /\ Len(UpNexts) = 2

\* ---------------------------------------------------------------- C39
\* the goroutine of the i-th Consumer is inside Next of its private stream,
\* between the send of its pointer and the receive of the outcome
BlockedInNext(i) == gpc[i] = "recvErr"

\* C39: MultiConsume writes the value of a round behind the pointer of a
\* Consumer only while the goroutine of that Consumer is blocked in Next of
\* its private stream, after it has handed over that pointer and before it
\* is given the outcome of the round; the storage of a Consumer changes in
\* no other step, and only the calling thread of MultiConsume writes the
\* value behind its own pointer.
C39_CopyWhileBlocked ==
  /\ [](epc = "next" =>
          \A i \in 1..nConsumers :
            ~streams[i].closed => BlockedInNext(i) /\ streams[i].ptr = gptr[i])
  /\ [][/\ \A i \in Consumers :
             gmem'[i] # gmem[i] =>
               /\ epc = "next"
               /\ BlockedInNext(i) /\ gpc'[i] = gpc[i]
               /\ gmem'[i] = [gmem[i] EXCEPT ![gptr[i]] = shared']
        /\ shared' # shared => epc = "next"]_vars

\* the upstream has emitted its first value; MultiConsume has copied it
\* behind the pointer of the second Consumer, which is blocked in Next, and
\* has left the storage of the first one, which is over, as it was
C39_Witness ==
  /\ epc = "asyncSend"
  /\ nConsumers = 2
  /\ Len(upLog) = 1
  /\ upLog[1].res = Nil
  /\ streams[1].closed
  /\ gpc[1] = "exit"
  /\ gmem[1] = [p \in Slots |-> 0]
  /\ BlockedInNext(2)
  /\ gptr[2] = 2
  /\ gmem[2] = [p \in Slots |-> IF p = 2 THEN 1 ELSE 0]
  /\ shared = 1

\* ---------------------------------------------------------------- C40
\* the worker goroutine waits for the caller: in startEmitter when it has
\* not been given a pointer yet, in Return afterwards
WorkerBlocked == ppc \in {"startEmitter", "returnRecv"}

\* the caller has called Close on the generator
CloseCalled == cop = "Close" \/ \E k \in 1..Len(calls) : calls[k].op = "Close"

\* C40: the worker goroutine of a generator is over exactly when the
\* generator is closed, which takes a Next that reads up to the end of the
\* emitting function or a Close that the emitting function obeys; between
\* two calls the worker is blocked, in startEmitter when no Next was ever
\* called and in Return otherwise, the emitting function has not run to its
\* end, and nothing changes for the worker as long as the caller makes no
\* call.
C40_WorkerEndsWhenDrainedOrClosed ==
  /\ [](ppc = "exit" <=> chClosed)
  /\ [](ppc = "exit" => finished = 1)
  /\ []((~wrapped /\ ppc = "exit") => pidx > Len(script) \/ CloseCalled)
  /\ [](\A k \in 1..Len(genCalls) : genCalls[k].res = Done => genCalls[k].closed)
  /\ [](\A k \in 1..Len(calls) :
          (calls[k].op = "Close" /\ obeys) => calls[k].closed)
  /\ [](cpc = "idle" =>
          /\ WorkerBlocked \/ ppc = "exit"
          /\ ppc = "startEmitter" <=> genCalls = <<>>
          /\ WorkerBlocked => finished = 0)
  /\ [][(cpc = "idle" /\ cpc' = "idle") =>
          UNCHANGED <<ppc, pidx, finished, chClosed>>]_vars

\* the caller has read one value of an emitting function that has more and
\* makes no call: the worker is blocked in Return, the emitting function
\* has not run to its end and the generator is open
C40_Witness ==
  /\ ~wrapped
  /\ cpc = "idle"
  /\ Len(calls) = 1
  /\ calls[1].op = "Next" /\ calls[1].res = Nil
  /\ pidx <= Len(script)
  /\ ppc = "returnRecv"
  /\ finished = 0
  /\ ~chClosed

====
